---- MODULE Spec2Model ----
(***************************************************************************)
(* Model of the roadride_mechanic event pipeline.                          *)
(*                                                                         *)
(*   repair-service : CreateRepair / UpdateRepair write the domain         *)
(*                    collections and the outbox in one MongoDB            *)
(*                    transaction; OutboxProcessor publishes the outbox.   *)
(*   broker         : one topic "repair-events", one partition.            *)
(*   mechanic-service: Consumer lands messages in mechanic_outbox, the     *)
(*                    mechanic OutboxProcessor materialises them into the  *)
(*                    mechanic-side repairs collection.                    *)
(*                                                                         *)
(* Documents are records, collections are sets of documents, the topic is  *)
(* a sequence (index = offset + 1).  Fields named tx / src are history     *)
(* fields that the program does not store; they only name the transaction  *)
(* or the outbox row a value came from.                                    *)
(***************************************************************************)
EXTENDS Integers, Sequences, FiniteSets, TLC

VARIABLES
    costs,      \* repair_costs collection
    repairs,    \* repairs collection of the repair service
    outbox,     \* outbox collection of the repair service
    commits,    \* history: domain mutations applied to `repairs`
    result,     \* last CreateRepair / UpdateRepair call: handler, outcome
                \* and the step of its transaction that failed (0 = none)
    broker,     \* "never" (down since start), "up", "down"
    topic,      \* messages of repair-events, in offset order
    dpc,        \* position of the repair-side OutboxProcessor
    dBatch,     \* outbox ids still to handle in the current pass
    cpc,        \* position of the mechanic-side Consumer loop
    cpos,       \* next offset the Consumer fetches
    ccommitted, \* offset committed for the consumer group
    absorbed,   \* history: offsets whose redelivery hit the unique index
    mOutbox,    \* mechanic_outbox collection
    mRepairs,   \* repairs collection seen by the mechanic service
    aBatch,     \* mechanic_outbox ids still to handle in the applier pass
    flips,      \* history: how often each mechanic_outbox row was flipped
    handled,    \* history: mechanic_outbox rows the applier ran to completion
    quota,      \* most repairs and outbox rows the handlers commit in this
                \* behaviour
    alive,      \* which service processes are still running
    upd,        \* the UpdateRepair call between its read and its transaction
    ticker,     \* a tick waits in the channel of the dispatcher's ticker
    passes,     \* history: the passes of processOutboxEvents, oldest first
    subs,       \* the StreamAllRepairs calls of several subscribers
    txs,        \* UpdateRepair calls that run at the same time
    spc,        \* position of the StreamAllRepairs call
    sSnap,      \* repairs of the initial read still to send
    sAtCall,    \* history: ids of the repairs stored when the call began
    eResult,    \* what the last EstimateRepairCost call returned
    mechQueries,\* history: GetAllMechanics calls made
    routeCalls, \* history: requests sent to the routing service
    clients,    \* api-gateway: hub map from userID to its connections
    mutex,      \* api-gateway: who holds clientsMutex
    wsock,      \* api-gateway: the HandleWebSocket call of each connection
    bcast,      \* api-gateway: the UpdateRepair calls and their broadcasts
    wire,       \* history: messages written to each connection, in order
    sFrom,      \* the change stream has delivered the inserts up to here
    frames,     \* frames sent on the stream, in order
    faults,     \* injected storage failures so far
    crashes,    \* process restarts so far
    outages     \* broker outages so far

vars == <<costs, repairs, outbox, commits, result, broker, topic, dpc, dBatch,
          cpc, cpos, ccommitted, absorbed, mOutbox, mRepairs, aBatch, flips,
          handled, quota, txs, alive, upd, ticker, passes, subs, spc, sSnap, sAtCall, sFrom, frames,
          eResult, mechQueries, routeCalls,
          clients, mutex, wsock, bcast, wire,
          faults, crashes, outages>>

repairVars   == <<costs, repairs, outbox, commits, result>>
dispVars     == <<dpc, dBatch>>
consVars     == <<cpc, cpos, ccommitted, absorbed>>
mechVars     == <<mOutbox, mRepairs, aBatch, flips, handled>>
streamVars   == <<spc, sSnap, sAtCall, sFrom, frames, subs>>
estVars      == <<eResult, mechQueries, routeCalls>>
hubVars      == <<clients, mutex, wsock, bcast, wire>>
tickVars     == <<ticker, passes>>
frontVars    == <<quota, txs, alive, upd, tickVars, streamVars, estVars, hubVars>>

----------------------------------------------------------------------------
(* Bounds of the model *)

MaxRepairs == 1     \* CreateRepair commits
MaxEvents  == 2     \* outbox rows (creates + updates)
MaxFaults  == 1     \* adverse events in a behaviour: storage failures,
                    \* process restarts and broker outages together

\* Cost ids the callers send: the id of the first estimate, which a caller
\* may send again, and an id no stored cost has.
CostIds == {1, Cardinality(costs) + 1}

----------------------------------------------------------------------------
(* Program constants *)

SchemaID == 258     \* ID returned by the schema registry at start-up

\* The status check with a value outside the enumerated set let through
ValidStatuses_Bogus ==
    {"pending", "in_progress", "completed", "cancelled", "bogus"}

ValidStatuses == {"pending", "in_progress", "completed", "cancelled"}

\* Inputs the callers are modelled to send.
UserInputs   == {"", "u1"}
TypeInputs   == {"", "flat_tire"}
PriceInputs  == {0, 50}
StatusInputs == {"", "bogus", "completed"}

MaxConns == 2       \* websocket connections the gateway accepts

Conns == 1 .. MaxConns
Users == {"u1", "u2"}

\* The UpdateRepair calls the gateway serves: two, which can overlap
Broadcasts == {1, 2}

\* subscribers of the repair stream, numbered in the order of their calls
Subscribers == {1, 2}

NoCall == [pc |-> "none", snap |-> <<>>, from |-> 0, frames |-> <<>>]

NoSubscribers == [s \in Subscribers |-> NoCall]

\* callers of UpdateRepair whose calls overlap
Callers == {1, 2}

NoTx == [pc |-> "none", repair |-> << >>, status |-> "", event |-> << >>]

NoCalls == [c \in Callers |-> NoTx]

\* no UpdateRepair call has read its repair
NoUpdate == << >>

\* both service processes run from main until the operating system ends them
AllAlive == [repair |-> TRUE, mechanic |-> TRUE]

\* make(map[string][]*websocket.Conn)
NoClients == << >>

\* clientsMutex unlocked
Free == <<"free", 0>>

\* A connection no request has asked for yet
NoSocket == [pc |-> "idle", user |-> "", open |-> FALSE]

\* An UpdateRepair call not made yet.  `after` is a history field: the
\* calls that had returned when this one was made.
NoBroadcast == [pc |-> "idle", user |-> "", left |-> <<>>, after |-> {}]

\* What EstimateRepairCost returns; `asked` is a history field.
Estimate(res, cost, asked) == [res |-> res, cost |-> cost, asked |-> asked]

NoEstimate == Estimate("none", <<>>, "")

----------------------------------------------------------------------------
(* Event codec: Avro body behind the 5-byte schema-registry envelope *)

\* The four bytes of n with the lowest byte first
BE32_LittleEndian(n) == << n % 256, (n \div 256) % 256,
                           (n \div 65536) % 256, (n \div 16777216) % 256 >>

\* binary.BigEndian.PutUint32
BE32(n) == << (n \div 16777216) % 256, (n \div 65536) % 256,
              (n \div 256) % 256, n % 256 >>

\* binary.BigEndian.Uint32
FromBE32(b) == b[1] * 16777216 + b[2] * 65536 + b[3] * 256 + b[4]

\* kafka.RepairEvent built from a repair (user_location and mechanics are
\* left empty: union branch 0 and an empty array block).
ToEvent(repair) ==
    [id |-> repair.id, user_id |-> repair.userID, status |-> repair.status,
     repair_type |-> repair.cost.repairType,
     total_price |-> repair.cost.totalPrice]

\* avro.Marshal: the fields in schema order.
AvroMarshal(ev) ==
    << ev.id, ev.user_id, ev.status, ev.repair_type, ev.total_price, 0, 0 >>

\* avro.Unmarshal: fails on a body that does not hold the seven fields.
AvroOk(body) == Len(body) = 7 /\ body[6] = 0 /\ body[7] = 0

AvroUnmarshal(body) ==
    [id |-> body[1], user_id |-> body[2], status |-> body[3],
     repair_type |-> body[4], total_price |-> body[5]]

\* magic byte 0, 4-byte schema ID, Avro body
Envelope(ev) == <<0>> \o BE32(SchemaID) \o AvroMarshal(ev)

\* payload[5:]
Body(payload) == SubSeq(payload, 6, Len(payload))

----------------------------------------------------------------------------
(* MongoDB collections and multi-document transactions *)

Store == [costs |-> costs, repairs |-> repairs, outbox |-> outbox,
          commits |-> commits, mOutbox |-> mOutbox, mRepairs |-> mRepairs,
          flips |-> flips]

Ids(coll) == {d.id : d \in coll}

\* mechanic_outbox without the unique index
OutboxIndexConflict_NoIndex(coll, doc) == FALSE

\* Unique index of mechanic_outbox on (kafka_topic, kafka_partition,
\* kafka_offset); the model has one topic with one partition.
OutboxIndexConflict(coll, doc) == \E d \in coll : d.koff = doc.koff

\* An insert fails by itself on a duplicate _id or a duplicate index key.
DuplicateKey(S, w) ==
    /\ w.op = "insert"
    /\ \/ w.doc.id \in Ids(S[w.coll])
       \/ w.coll = "mOutbox" /\ OutboxIndexConflict(S.mOutbox, w.doc)

ApplyWrite(S, w) ==
    CASE w.op = "insert" /\ w.coll = "repairs" ->
            [S EXCEPT !.repairs = @ \cup {w.doc},
                      !.commits = @ \cup {[tx |-> w.tx, kind |-> "create",
                                           id |-> w.doc.id,
                                           status |-> w.doc.status]}]
      [] w.op = "insert" /\ w.coll = "mOutbox" ->
            [S EXCEPT !.mOutbox = @ \cup {w.doc},
                      !.flips = (w.doc.id :> 0) @@ @]
      [] w.op = "insert" ->
            [S EXCEPT ![w.coll] = @ \cup {w.doc}]
      [] w.op = "setStatus" ->
            [S EXCEPT !.repairs =
                        {IF d.id = w.id THEN [d EXCEPT !.status = w.status]
                                        ELSE d : d \in @},
                      !.commits =
                        IF w.id \in Ids(S.repairs)
                          THEN @ \cup {[tx |-> w.tx, kind |-> "update",
                                        id |-> w.id, status |-> w.status]}
                          ELSE @]
      [] w.op = "markProcessed" ->
            [S EXCEPT ![w.coll] =
                        {IF d.id = w.id THEN [d EXCEPT !.processed = TRUE]
                                        ELSE d : d \in @},
                      !.flips =
                        IF w.coll = "mOutbox" /\ w.id \in DOMAIN @
                           /\ \E d \in S.mOutbox : d.id = w.id /\ ~d.processed
                          THEN [@ EXCEPT ![w.id] = @ + 1]
                          ELSE @]
      [] OTHER -> S

\* The closure of mongo.WithSession followed by CommitTransaction, or by
\* AbortTransaction when a step returned an error.
\*   ws     : the writes the closure issues, in order; w.sess tells whether
\*            the write was issued on the session context
\*   inject : 0, or the step made to fail (Len(ws) + 1 = the commit)
\*   D      : what is durable if the transaction aborts
\*   V      : what the session sees
RECURSIVE RunSteps(_, _, _, _, _)
RunSteps(D, V, ws, i, inject) ==
    IF i > Len(ws)
      THEN IF inject = i THEN [store |-> D, err |-> i]
                         ELSE [store |-> V, err |-> 0]
      ELSE IF inject = i \/ DuplicateKey(V, ws[i])
             THEN [store |-> D, err |-> i]
             ELSE IF ws[i].sess
                    THEN RunSteps(D, ApplyWrite(V, ws[i]), ws, i + 1, inject)
                    ELSE RunSteps(ApplyWrite(D, ws[i]), ApplyWrite(V, ws[i]),
                                  ws, i + 1, inject)

RunTx(S, ws, inject) == RunSteps(S, S, ws, 1, inject)

\* Adverse events so far
Adverse == faults + crashes + outages

\* Failure points a handler with n steps can be given.
FailPoints(n) == IF Adverse < MaxFaults THEN 0 .. (n + 1) ELSE {0}

Spend(inject) == IF inject = 0 THEN faults ELSE faults + 1

----------------------------------------------------------------------------
(* repair-service: repository writes *)

\* primitive.NewObjectID(): an ID no document of the collection has.
NewObjectID(coll) == Cardinality(coll) + 1

\* SaveRepairCost called with the request context instead of the session
SaveRepairCost_NoSession(cost) ==
    [coll |-> "costs", op |-> "insert", doc |-> cost, sess |-> FALSE]

\* MongoRepository.SaveRepairCost, called with the session context
SaveRepairCost(cost) ==
    [coll |-> "costs", op |-> "insert", doc |-> cost, sess |-> TRUE]

\* MongoRepository.CreateRepair, called with the session context
InsertRepairDoc(repair, tx) ==
    [coll |-> "repairs", op |-> "insert", doc |-> repair, tx |-> tx,
     sess |-> TRUE]

\* UpdateRepair called with the request context instead of the session
UpdateRepairStatus_NoSession(repairID, status, tx) ==
    [coll |-> "repairs", op |-> "setStatus", id |-> repairID,
     status |-> status, tx |-> tx, sess |-> FALSE]

\* MongoRepository.UpdateRepair, called with the session context
UpdateRepairStatus(repairID, status, tx) ==
    [coll |-> "repairs", op |-> "setStatus", id |-> repairID,
     status |-> status, tx |-> tx, sess |-> TRUE]

\* An outbox row born with Processed set, as if the call had published it
NewOutboxEvent_Processed(S, eventType, payload) ==
    [id |-> NewObjectID(S.outbox), eventType |-> eventType,
     payload |-> payload, processed |-> TRUE, tx |-> NewObjectID(S.outbox)]

\* domain.OutboxEvent as the service builds it
NewOutboxEvent(S, eventType, payload) ==
    [id |-> NewObjectID(S.outbox), eventType |-> eventType,
     payload |-> payload, processed |-> FALSE, tx |-> NewObjectID(S.outbox)]

\* MongoRepository.SaveOutboxEvent: InsertOne on the session
SaveOutboxEvent(event) ==
    [coll |-> "outbox", op |-> "insert", doc |-> event, sess |-> TRUE]

\* Writes a handler's transaction leaves in the variables.
Commit(S) ==
    /\ costs'    = S.costs
    /\ repairs'  = S.repairs
    /\ outbox'   = S.outbox
    /\ commits'  = S.commits
    /\ mOutbox'  = S.mOutbox
    /\ mRepairs' = S.mRepairs
    /\ flips'    = S.flips

----------------------------------------------------------------------------
(* repair-service: service.CreateRepair and service.UpdateRepair *)

Returned(op, res, err) == [op |-> op, res |-> res, err |-> err]

Outcome(op, r) ==
    Returned(op, IF r.err = 0 THEN "ok" ELSE "StorageFailure", r.err)

\* A nil *domain.RepairCostModel
NilCost == [nil |-> TRUE]

IsNil(cost) == DOMAIN cost = {"nil"}

CostInputs ==
    [id : CostIds, userID : UserInputs, repairType : TypeInputs,
     totalPrice : PriceInputs] \cup {NilCost}

\* The input check without the test of the price
InvalidCost_NoPriceCheck(cost) ==
    IsNil(cost) \/ cost.userID = "" \/ cost.repairType = ""

InvalidCost(cost) ==
    \/ IsNil(cost)
    \/ cost.userID = ""
    \/ cost.repairType = ""
    \/ cost.totalPrice <= 0

\* A repair built without the user of its cost
NewRepair_NoUser(S, cost) ==
    [id |-> NewObjectID(S.repairs), userID |-> "",
     status |-> "pending", cost |-> cost]

NewRepair(S, cost) ==
    [id |-> NewObjectID(S.repairs), userID |-> cost.userID,
     status |-> "pending", cost |-> cost]

CreateRepairWrites(S, cost) ==
    LET repair == NewRepair(S, cost)
        event  == NewOutboxEvent(S, "RepairCreated",
                                 Envelope(ToEvent(repair)))
    IN  << SaveRepairCost(cost),
           InsertRepairDoc(repair, event.tx),
           SaveOutboxEvent(event) >>

\* service.CreateRepair called with cost
CreateRepairOf(cost) ==
    IF InvalidCost(cost)
      THEN /\ result' = Returned("CreateRepair", "InvalidInput", 0)
           /\ UNCHANGED <<costs, repairs, outbox, commits, mOutbox,
                          mRepairs, flips, faults>>
      ELSE /\ Cardinality(repairs) < quota.repairs
           /\ Cardinality(outbox) < quota.events
           /\ \E inject \in FailPoints(3) :
                LET r == RunTx(Store, CreateRepairWrites(Store, cost),
                               inject)
                IN  /\ Commit(r.store)
                    /\ result' = Outcome("CreateRepair", r)
                    /\ faults' = Spend(inject)

CreateRepair ==
    /\ \E cost \in CostInputs : CreateRepairOf(cost)
    /\ UNCHANGED <<frontVars, broker, topic, dpc, dBatch, consVars, aBatch,
                   handled, crashes, outages>>

\* repairID 0 stands for the empty string; the largest is the ID of no
\* repair.
RepairIdInputs == 0 .. (quota.repairs + 1)

\* MongoRepository.GetRepairByID
GetRepairByID(repairID) == {d \in repairs : d.id = repairID}

UpdateRepairWrites(S, repair, status) ==
    LET updated == [repair EXCEPT !.status = status]
        event   == NewOutboxEvent(S, "RepairUpdated",
                                  Envelope(ToEvent(updated)))
    IN  << UpdateRepairStatus(repair.id, status, event.tx),
           SaveOutboxEvent(event) >>

\* service.UpdateRepair called with repairID and status
UpdateRepairOf(repairID, status) ==
    IF repairID = 0 \/ status = "" \/ status \notin ValidStatuses
      THEN /\ result' = Returned("UpdateRepair", "InvalidInput", 0)
           /\ UNCHANGED <<costs, repairs, outbox, commits, mOutbox,
                          mRepairs, flips, faults>>
      ELSE IF GetRepairByID(repairID) = {}
        THEN /\ result' = Returned("UpdateRepair", "NotFound", 0)
             /\ UNCHANGED <<costs, repairs, outbox, commits, mOutbox,
                            mRepairs, flips, faults>>
        ELSE /\ Cardinality(outbox) < quota.events
             /\ \E repair \in GetRepairByID(repairID),
                   inject \in FailPoints(2) :
                  LET r == RunTx(Store,
                                 UpdateRepairWrites(Store, repair, status),
                                 inject)
                  IN  /\ Commit(r.store)
                      /\ result' = Outcome("UpdateRepair", r)
                      /\ faults' = Spend(inject)

UpdateRepair ==
    \E repairID \in RepairIdInputs, status \in StatusInputs :
      /\ UpdateRepairOf(repairID, status)
      /\ UNCHANGED <<frontVars, broker, topic, dpc, dBatch, consVars,
                     aBatch, handled, crashes, outages>>

----------------------------------------------------------------------------
(* broker *)

BrokerRecover ==
    /\ broker \in {"never", "down"}
    /\ broker' = "up"
    /\ UNCHANGED <<frontVars, repairVars, topic, dispVars, consVars, mechVars, faults,
                   crashes, outages>>

BrokerFail ==
    /\ broker = "up"
    /\ Adverse < MaxFaults
    /\ broker' = "down"
    /\ outages' = outages + 1
    /\ UNCHANGED <<frontVars, repairVars, topic, dispVars, consVars, mechVars, faults,
                   crashes>>

----------------------------------------------------------------------------
(* repair-service: kafka.OutboxProcessor *)

\* The ids of a set of rows in insertion order.
RECURSIVE InOrder(_)
InOrder(ids) ==
    IF ids = {} THEN <<>>
    ELSE LET m == CHOOSE x \in ids : \A y \in ids : x <= y
         IN  <<m>> \o InOrder(ids \ {m})

\* The query with its filter inverted: Find {processed: true}
GetUnprocessedOutboxEvents_Inverted ==
    InOrder({d.id : d \in {e \in outbox : e.processed}})

\* The query without its filter: Find {}
GetUnprocessedOutboxEvents_NoFilter == InOrder({d.id : d \in outbox})

\* The query sorted with the newest row first
GetUnprocessedOutboxEvents_NewestFirst ==
    LET asc == InOrder({d.id : d \in {e \in outbox : ~e.processed}})
    IN  [i \in 1 .. Len(asc) |-> asc[Len(asc) + 1 - i]]

\* MongoRepository.GetUnprocessedOutboxEvents: Find {processed: false}
GetUnprocessedOutboxEvents == InOrder({d.id : d \in {e \in outbox : ~e.processed}})

OutboxRow(id) == CHOOSE d \in outbox : d.id = id

\* The loop of processOutboxEvents goes on to the next event.
NextEvent ==
    /\ dBatch' = Tail(dBatch)
    /\ dpc' = IF Tail(dBatch) = <<>> THEN "idle" ELSE "publish"

\* case <-ticker.C: with no pass running, a pass loads the batch.
DispatcherTick ==
    /\ dpc = "idle"
    /\ GetUnprocessedOutboxEvents # <<>>
    /\ dBatch' = GetUnprocessedOutboxEvents
    /\ dpc' = "publish"
    /\ UNCHANGED <<frontVars, repairVars, broker, topic, consVars, mechVars, faults,
                   crashes, outages>>

\* Producer.PublishOutboxEvent: the delivery report carries no error.
PublishAcked ==
    /\ dpc = "publish"
    /\ broker = "up"
    /\ topic' = Append(topic, [payload |-> OutboxRow(Head(dBatch)).payload,
                               src |-> Head(dBatch)])
    /\ dpc' = "mark"
    /\ UNCHANGED <<frontVars, repairVars, broker, dBatch, consVars, mechVars, faults,
                   crashes, outages>>

\* The error branch without its `continue`: the flip follows anyway.
PublishFailed_NoContinue ==
    /\ dpc = "publish"
    /\ broker # "up"
    /\ dpc' = "mark"
    /\ UNCHANGED <<frontVars, repairVars, broker, topic, dBatch, consVars, mechVars,
                   faults, crashes, outages>>

\* The error branch as `return err`: the pass ends at the first failure.
PublishFailed_Return ==
    /\ dpc = "publish"
    /\ broker # "up"
    /\ dBatch' = <<>>
    /\ dpc' = "idle"
    /\ UNCHANGED <<frontVars, repairVars, broker, topic, consVars, mechVars, faults,
                   crashes, outages>>

\* Producer.PublishOutboxEvent returns an error: `continue`.
PublishFailed ==
    /\ dpc = "publish"
    /\ broker # "up"
    /\ NextEvent
    /\ UNCHANGED <<frontVars, repairVars, broker, topic, consVars, mechVars, faults,
                   crashes, outages>>

\* The acknowledged row deleted from the outbox instead of flagged
MarkOutboxEventProcessed_Delete ==
    /\ dpc = "mark"
    /\ \E inject \in FailPoints(0) :
         /\ outbox' = IF inject = 0
                        THEN {d \in outbox : d.id # Head(dBatch)}
                        ELSE outbox
         /\ faults' = Spend(inject)
    /\ NextEvent
    /\ UNCHANGED <<frontVars, costs, repairs, commits, result, broker, topic, consVars,
                   mechVars, crashes, outages>>

\* MongoRepository.MarkOutboxEventProcessed after the acknowledgement
MarkOutboxEventProcessed ==
    /\ dpc = "mark"
    /\ \E inject \in FailPoints(0) :
         /\ outbox' = IF inject = 0
                        THEN {IF d.id = Head(dBatch)
                                THEN [d EXCEPT !.processed = TRUE]
                                ELSE d : d \in outbox}
                        ELSE outbox
         /\ faults' = Spend(inject)
    /\ NextEvent
    /\ UNCHANGED <<frontVars, costs, repairs, commits, result, broker, topic, consVars,
                   mechVars, crashes, outages>>

\* A restart whose NewService does not start the OutboxProcessor goroutine
RepairServiceRestart_NoProcessor ==
    /\ Adverse < MaxFaults
    /\ crashes' = crashes + 1
    /\ dpc' = "stopped"
    /\ dBatch' = <<>>
    /\ UNCHANGED <<frontVars, repairVars, broker, topic, consVars, mechVars, faults,
                   outages>>

\* The repair-service process dies and is started again: NewService starts
\* a new OutboxProcessor; the collections and the topic survive.
RepairServiceRestart ==
    /\ Adverse < MaxFaults
    /\ crashes' = crashes + 1
    /\ dpc' = "idle"
    /\ dBatch' = <<>>
    /\ UNCHANGED <<frontVars, repairVars, broker, topic, consVars, mechVars, faults,
                   outages>>

----------------------------------------------------------------------------
(* mechanic-service: kafka.Consumer *)

\* "enable.auto.commit" of the ConfigMap NewConsumer builds
EnableAutoCommit == TRUE

\* c.kafkaConsumer.ReadMessage(-1) returns the message at the position;
\* the client stores its offset for the next commit.
ConsumerRead ==
    /\ cpc = "poll"
    /\ cpos <= Len(topic)
    /\ cpos' = cpos + 1
    /\ cpc' = "handle"
    /\ UNCHANGED <<frontVars, repairVars, broker, topic, dispVars, ccommitted, absorbed,
                   mechVars, faults, crashes, outages>>

\* The message the loop is handling, and its offset.
CurrentOffset == cpos - 1
CurrentMessage == topic[CurrentOffset]

\* len(msg.Value) < 5
TooShort(payload) == Len(payload) < 5

\* The checks of the loop before the event is handed on: the length, then
\* avro.Unmarshal of msg.Value[5:].  Byte 0 is not looked at.
Undecodable(payload) == TooShort(payload) \/ ~AvroOk(Body(payload))

\* The mechanic_outbox row of a message.
InboxEvent(msg, offset) ==
    [id |-> NewObjectID(mOutbox), eventType |-> "RepairEvent",
     payload |-> msg.payload, processed |-> FALSE, koff |-> offset]

\* MongoRepository.SaveOutboxEvent (mechanic side): InsertOne on the session
SaveInboxEvent(event) ==
    [coll |-> "mOutbox", op |-> "insert", doc |-> event, sess |-> TRUE]

\* The transaction that lands a message.  An insert refused by the unique
\* index aborts the transaction and counts as success.
LandMessage(msg, offset, inject) ==
    LET r == RunTx(Store, <<SaveInboxEvent(InboxEvent(msg, offset))>>, inject)
    IN  IF inject = 0 /\ OutboxIndexConflict(mOutbox, InboxEvent(msg, offset))
          THEN [store |-> r.store, err |-> 0]
          ELSE r

\* The body of the loop after ReadMessage; every failure ends in `continue`.
ConsumerHandle ==
    /\ cpc = "handle"
    /\ cpc' = "poll"
    /\ IF Undecodable(CurrentMessage.payload)
         THEN UNCHANGED <<mOutbox, flips, faults, absorbed>>
         ELSE \E inject \in FailPoints(1) :
                LET event == InboxEvent(CurrentMessage, CurrentOffset)
                    r     == LandMessage(CurrentMessage, CurrentOffset, inject)
                IN  /\ mOutbox' = r.store.mOutbox
                    /\ flips' = r.store.flips
                    /\ faults' = Spend(inject)
                    /\ absorbed' =
                         IF inject = 0 /\ OutboxIndexConflict(mOutbox, event)
                           THEN absorbed \cup {CurrentOffset}
                           ELSE absorbed
    /\ UNCHANGED <<frontVars, repairVars, broker, topic, dispVars, cpos, ccommitted,
                   mRepairs, aBatch, handled, crashes, outages>>

\* The client's background commit of the stored offset.
AutoCommit ==
    /\ EnableAutoCommit
    /\ ccommitted < cpos
    /\ ccommitted' = cpos
    /\ UNCHANGED <<frontVars, repairVars, broker, topic, dispVars, cpc, cpos, absorbed,
                   mechVars, faults, crashes, outages>>

----------------------------------------------------------------------------
(* mechanic-service: kafka.OutboxProcessor (the applier) *)

\* MongoRepository.GetUnprocessedOutboxEvents (mechanic side)
GetUnprocessedInboxEvents ==
    InOrder({d.id : d \in {e \in mOutbox : ~e.processed}})

InboxRow(id) == CHOOSE d \in mOutbox : d.id = id

\* A Repair whose event id is not its _id: the driver generates the _id.
ToRepairDoc_GeneratedId(ev) ==
    [id |-> 1000 + Cardinality(mRepairs), repairID |-> ev.id,
     userID |-> ev.user_id, status |-> ev.status,
     cost |-> [id |-> ev.id, userID |-> ev.user_id,
               repairType |-> ev.repair_type, totalPrice |-> ev.total_price]]

\* domain.Repair built from the decoded event; ID is stored as _id.
ToRepairDoc(ev) ==
    [id |-> ev.id, repairID |-> ev.id, userID |-> ev.user_id,
     status |-> ev.status,
     cost |-> [id |-> ev.id, userID |-> ev.user_id,
               repairType |-> ev.repair_type, totalPrice |-> ev.total_price]]

\* MongoRepository.CheckRepairExists: FindOne {_id: repairID} on the session
CheckRepairExists(repairID) == \E d \in mRepairs : d.id = repairID

FindRepair(repairID) ==
    [coll |-> "mRepairs", op |-> "find", id |-> repairID, sess |-> TRUE]

\* MongoRepository.InsertRepair: InsertOne on the session
InsertRepair(repair) ==
    [coll |-> "mRepairs", op |-> "insert", doc |-> repair, sess |-> TRUE]

\* MongoRepository.MarkOutboxEventProcessed (mechanic side): UpdateOne on
\* the context it is given, which is the caller's ctx and not the session.
MarkInboxEventProcessed(eventID) ==
    [coll |-> "mOutbox", op |-> "markProcessed", id |-> eventID,
     sess |-> FALSE]

\* The closure passed to mongo.WithSession for one event.
ApplyEventWrites(eventID, repair) ==
    IF CheckRepairExists(repair.id)
      THEN << FindRepair(repair.id) >>
      ELSE << FindRepair(repair.id), InsertRepair(repair),
              MarkInboxEventProcessed(eventID) >>

ApplierTick ==
    /\ aBatch = <<>>
    /\ GetUnprocessedInboxEvents # <<>>
    /\ aBatch' = GetUnprocessedInboxEvents
    /\ UNCHANGED <<frontVars, repairVars, broker, topic, dispVars, consVars, mOutbox,
                   mRepairs, flips, handled, faults, crashes, outages>>

\* One iteration of the loop of processOutboxEvents.
ApplierStep ==
    /\ aBatch # <<>>
    /\ aBatch' = Tail(aBatch)
    /\ LET event == InboxRow(Head(aBatch))
       IN  IF TooShort(event.payload) \/ ~AvroOk(Body(event.payload))
             THEN UNCHANGED <<mOutbox, mRepairs, flips, handled, faults>>
             ELSE LET repair == ToRepairDoc(AvroUnmarshal(Body(event.payload)))
                      ws     == ApplyEventWrites(event.id, repair)
                  IN  \E inject \in FailPoints(Len(ws)) :
                        LET r == RunTx(Store, ws, inject)
                        IN  /\ mOutbox' = r.store.mOutbox
                            /\ mRepairs' = r.store.mRepairs
                            /\ flips' = r.store.flips
                            /\ handled' = IF r.err = 0
                                            THEN handled \cup {event.id}
                                            ELSE handled
                            /\ faults' = Spend(inject)
    /\ UNCHANGED <<frontVars, repairVars, broker, topic, dispVars, consVars, crashes, outages>>

\* The mechanic-service process dies and is started again: the consumer
\* resumes from the committed offset, the applier from an empty pass.
MechanicServiceRestart ==
    /\ Adverse < MaxFaults
    /\ crashes' = crashes + 1
    /\ cpc' = "poll"
    /\ cpos' = ccommitted
    /\ aBatch' = <<>>
    /\ UNCHANGED <<frontVars, repairVars, broker, topic, dispVars, ccommitted, absorbed,
                   mOutbox, mRepairs, flips, handled, faults, outages>>

----------------------------------------------------------------------------
(* Specifications *)

Init ==
    /\ costs = {}
    /\ repairs = {}
    /\ outbox = {}
    /\ commits = {}
    /\ result = Returned("none", "none", 0)
    /\ broker = "never"
    /\ topic = <<>>
    /\ dpc = "idle"
    /\ dBatch = <<>>
    /\ cpc = "poll"
    /\ cpos = 1
    /\ ccommitted = 1
    /\ absorbed = {}
    /\ mOutbox = {}
    /\ mRepairs = {}
    /\ aBatch = <<>>
    /\ flips = <<>>
    /\ handled = {}
    /\ quota = [repairs |-> MaxRepairs, events |-> MaxEvents]
    /\ alive = AllAlive
    /\ upd = NoUpdate
    /\ ticker = FALSE
    /\ passes = <<>>
    /\ subs = NoSubscribers
    /\ txs = NoCalls
    /\ spc = "none"
    /\ sSnap = <<>>
    /\ sAtCall = {}
    /\ sFrom = 0
    /\ frames = <<>>
    /\ eResult = NoEstimate
    /\ mechQueries = 0
    /\ routeCalls = 0
    /\ clients = NoClients
    /\ mutex = Free
    /\ wsock = [c \in Conns |-> NoSocket]
    /\ bcast = [b \in Broadcasts |-> NoBroadcast]
    /\ wire = [c \in Conns |-> <<>>]
    /\ faults = 0
    /\ crashes = 0
    /\ outages = 0

\* The repair-service process with the broker: every handler of the
\* service and every step of its OutboxProcessor.  The mechanic service is
\* a separate process and takes no step here.
Next ==
    \/ CreateRepair
    \/ UpdateRepair
    \/ BrokerRecover
    \/ BrokerFail
    \/ DispatcherTick
    \/ PublishAcked
    \/ PublishFailed
    \/ MarkOutboxEventProcessed
    \/ RepairServiceRestart

Spec == Init /\ [][Next]_vars

----------------------------------------------------------------------------
(* The mechanic-service process.  It sees the repair service only through  *)
(* the topic, so its specification starts from a topic the repair service  *)
(* can have written: the messages of the rows of ProducerHistory, in any   *)
(* order and with repetitions (a row is published again after a failed     *)
(* flip or a restart, and a row whose publication failed is overtaken).    *)

MaxTopic == 2       \* messages on the topic when the mechanic service starts

EmptyStore ==
    [costs |-> {}, repairs |-> {}, outbox |-> {}, commits |-> {},
     mOutbox |-> {}, mRepairs |-> {}, flips |-> <<>>]

RefCost(i) ==
    [id |-> i, userID |-> "u1", repairType |-> "flat_tire",
     totalPrice |-> 50]

\* CreateRepair, UpdateRepair(1, "completed"), CreateRepair,
\* UpdateRepair(1, "cancelled"): four commits.
AfterCreate1 ==
    RunTx(EmptyStore, CreateRepairWrites(EmptyStore, RefCost(1)), 0).store
AfterUpdate1 ==
    LET repair == CHOOSE d \in AfterCreate1.repairs : d.id = 1
    IN  RunTx(AfterCreate1,
              UpdateRepairWrites(AfterCreate1, repair, "completed"), 0).store
AfterCreate2 ==
    RunTx(AfterUpdate1, CreateRepairWrites(AfterUpdate1, RefCost(2)), 0).store
ProducerHistory ==
    LET repair == CHOOSE d \in AfterCreate2.repairs : d.id = 1
    IN  RunTx(AfterCreate2,
              UpdateRepairWrites(AfterCreate2, repair, "cancelled"), 0).store

MessageOf(row) == [payload |-> row.payload, src |-> row.id]

Topics ==
    UNION {[1 .. n -> {MessageOf(row) : row \in ProducerHistory.outbox}] :
             n \in 1 .. MaxTopic}

Published(t) == {t[i].src : i \in DOMAIN t}

InitM ==
    /\ topic \in Topics
    /\ costs = ProducerHistory.costs
    /\ repairs = ProducerHistory.repairs
    /\ outbox = {[row EXCEPT !.processed = (row.id \in Published(topic))] :
                   row \in ProducerHistory.outbox}
    /\ commits = ProducerHistory.commits
    /\ result = Returned("CreateRepair", "ok", 0)
    /\ broker = "up"
    /\ dpc = "idle"
    /\ dBatch = <<>>
    /\ cpc = "poll"
    /\ cpos = 1
    /\ ccommitted = 1
    /\ absorbed = {}
    /\ mOutbox = {}
    /\ mRepairs = {}
    /\ aBatch = <<>>
    /\ flips = <<>>
    /\ handled = {}
    /\ quota = [repairs |-> MaxRepairs, events |-> MaxEvents]
    /\ alive = AllAlive
    /\ upd = NoUpdate
    /\ ticker = FALSE
    /\ passes = <<>>
    /\ subs = NoSubscribers
    /\ txs = NoCalls
    /\ spc = "none"
    /\ sSnap = <<>>
    /\ sAtCall = {}
    /\ sFrom = 0
    /\ frames = <<>>
    /\ eResult = NoEstimate
    /\ mechQueries = 0
    /\ routeCalls = 0
    /\ clients = NoClients
    /\ mutex = Free
    /\ wsock = [c \in Conns |-> NoSocket]
    /\ bcast = [b \in Broadcasts |-> NoBroadcast]
    /\ wire = [c \in Conns |-> <<>>]
    /\ faults = 0
    /\ crashes = 0
    /\ outages = 0

NextM ==
    \/ ConsumerRead
    \/ ConsumerHandle
    \/ AutoCommit
    \/ ApplierTick
    \/ ApplierStep
    \/ MechanicServiceRestart

SpecM == InitM /\ [][NextM]_vars

----------------------------------------------------------------------------
(* The mechanic-service process on a topic that also holds messages no    *)
(* repair service wrote.                                                  *)

\* The repair a foreign message names
ForeignRepair ==
    [id |-> 9, userID |-> "u9", status |-> "pending", cost |-> RefCost(9)]

\* A value of three bytes
ShortValue == <<0, 0, 0>>

\* An envelope whose first byte is 1, with the schema ID and an Avro body
WrongMagicValue == <<1>> \o BE32(SchemaID) \o AvroMarshal(ToEvent(ForeignRepair))

\* An envelope whose body is cut after the third field
CutBodyValue ==
    <<0>> \o BE32(SchemaID) \o SubSeq(AvroMarshal(ToEvent(ForeignRepair)), 1, 3)

ForeignMessages ==
    {[payload |-> v, src |-> 0] :
       v \in {ShortValue, WrongMagicValue, CutBodyValue}}

TopicsV ==
    UNION {[1 .. n -> ForeignMessages
                      \cup {MessageOf(row) : row \in AfterCreate1.outbox}] :
             n \in 1 .. MaxTopic}

InitV ==
    /\ topic \in TopicsV
    /\ costs = AfterCreate1.costs
    /\ repairs = AfterCreate1.repairs
    /\ outbox = {[row EXCEPT !.processed = (row.id \in Published(topic))] :
                   row \in AfterCreate1.outbox}
    /\ commits = AfterCreate1.commits
    /\ result = Returned("CreateRepair", "ok", 0)
    /\ broker = "up"
    /\ dpc = "idle"
    /\ dBatch = <<>>
    /\ cpc = "poll"
    /\ cpos = 1
    /\ ccommitted = 1
    /\ absorbed = {}
    /\ mOutbox = {}
    /\ mRepairs = {}
    /\ aBatch = <<>>
    /\ flips = <<>>
    /\ handled = {}
    /\ quota = [repairs |-> MaxRepairs, events |-> MaxEvents]
    /\ alive = AllAlive
    /\ upd = NoUpdate
    /\ ticker = FALSE
    /\ passes = <<>>
    /\ subs = NoSubscribers
    /\ txs = NoCalls
    /\ spc = "none"
    /\ sSnap = <<>>
    /\ sAtCall = {}
    /\ sFrom = 0
    /\ frames = <<>>
    /\ eResult = NoEstimate
    /\ mechQueries = 0
    /\ routeCalls = 0
    /\ clients = NoClients
    /\ mutex = Free
    /\ wsock = [c \in Conns |-> NoSocket]
    /\ bcast = [b \in Broadcasts |-> NoBroadcast]
    /\ wire = [c \in Conns |-> <<>>]
    /\ faults = 0
    /\ crashes = 0
    /\ outages = 0

SpecV == InitV /\ [][NextM]_vars

----------------------------------------------------------------------------
(* repair-service: RepairServer.StreamAllRepairs *)

MaxStream == 3      \* repairs and outbox rows committed around one stream

\* MongoRepository.GetAllRepairs: Find {} in one pass
GetAllRepairs ==
    LET ids == InOrder(Ids(repairs))
    IN  [i \in DOMAIN ids |-> CHOOSE d \in repairs : d.id = ids[i]]

\* convertToProtoRepair; `via` is a history field.
Frame(repair, via) == [id |-> repair.id, status |-> repair.status, via |-> via]

\* The change stream without its $match stage: every write is an event
Inserts_AllOperations == {m \in commits : m.kind \in {"create", "update"}}

\* Insert events of the repairs collection, named by their transaction
Inserts == {m \in commits : m.kind = "create"}

\* A change stream opened before the oldest committed write
LastCommitted_Oldest ==
    IF commits = {} THEN 0
    ELSE (CHOOSE t \in {m.tx : m \in commits} :
            \A m \in commits : t <= m.tx) - 1

\* The newest committed write when the change stream is opened
LastCommitted ==
    IF commits = {} THEN 0
    ELSE CHOOSE t \in {m.tx : m \in commits} :
           \A m \in commits : m.tx <= t

\* Insert events the change stream has not delivered yet
Pending == {m \in Inserts : m.tx > sFrom}

\* changeStream.Next delivers the events in the order of their commits.
NextInsert == CHOOSE m \in Pending : \A o \in Pending : m.tx <= o.tx

\* The call starts and reads the existing repairs.
StreamAllRepairs ==
    /\ spc = "none"
    /\ sSnap' = GetAllRepairs
    /\ sAtCall' = Ids(repairs)
    /\ spc' = "initial"
    /\ UNCHANGED <<repairVars, broker, topic, dispVars, consVars, mechVars,
                   hubVars, estVars, quota, txs, alive, upd, tickVars, subs, sFrom, frames, faults, crashes, outages>>

\* stream.Send of one repair of the initial read
SendInitial ==
    /\ spc = "initial"
    /\ sSnap # <<>>
    /\ frames' = Append(frames, Frame(Head(sSnap), "initial"))
    /\ sSnap' = Tail(sSnap)
    /\ UNCHANGED <<repairVars, broker, topic, dispVars, consVars, mechVars,
                   hubVars, estVars, quota, txs, alive, upd, tickVars, subs, spc, sAtCall, sFrom, faults, crashes, outages>>

\* MongoRepository.WatchRepairs: the change stream opens at the present.
WatchRepairs ==
    /\ spc = "initial"
    /\ sSnap = <<>>
    /\ sFrom' = LastCommitted
    /\ spc' = "tail"
    /\ UNCHANGED <<repairVars, broker, topic, dispVars, consVars, mechVars,
                   hubVars, estVars, quota, txs, alive, upd, tickVars, subs, sSnap, sAtCall, frames, faults, crashes, outages>>

\* changeStream.Next, Decode and stream.Send of one inserted repair
StreamNext ==
    /\ spc = "tail"
    /\ Pending # {}
    /\ frames' = Append(frames,
                        Frame([id |-> NextInsert.id,
                               status |-> NextInsert.status], "tail"))
    /\ sFrom' = NextInsert.tx
    /\ UNCHANGED <<repairVars, broker, topic, dispVars, consVars, mechVars,
                   hubVars, estVars, quota, txs, alive, upd, tickVars, subs, spc, sSnap, sAtCall, faults, crashes, outages>>

\* stream.Send or the change stream returns an error: the call returns.
StreamBroken ==
    /\ spc \in {"initial", "tail"}
    /\ Adverse < MaxFaults
    /\ faults' = faults + 1
    /\ spc' = "closed"
    /\ UNCHANGED <<repairVars, broker, topic, dispVars, consVars, mechVars,
                   hubVars, estVars, quota, txs, alive, upd, tickVars, subs, sSnap, sAtCall, sFrom, frames, crashes, outages>>

\* The repair service with no repair yet and room for MaxStream commits
InitS ==
    /\ costs = {}
    /\ repairs = {}
    /\ outbox = {}
    /\ commits = {}
    /\ result = Returned("none", "none", 0)
    /\ broker = "never"
    /\ topic = <<>>
    /\ dpc = "idle"
    /\ dBatch = <<>>
    /\ cpc = "poll"
    /\ cpos = 1
    /\ ccommitted = 1
    /\ absorbed = {}
    /\ mOutbox = {}
    /\ mRepairs = {}
    /\ aBatch = <<>>
    /\ flips = <<>>
    /\ handled = {}
    /\ quota = [repairs |-> MaxStream, events |-> MaxStream]
    /\ alive = AllAlive
    /\ upd = NoUpdate
    /\ ticker = FALSE
    /\ passes = <<>>
    /\ subs = NoSubscribers
    /\ txs = NoCalls
    /\ spc = "none"
    /\ sSnap = <<>>
    /\ sAtCall = {}
    /\ sFrom = 0
    /\ frames = <<>>
    /\ eResult = NoEstimate
    /\ mechQueries = 0
    /\ routeCalls = 0
    /\ clients = NoClients
    /\ mutex = Free
    /\ wsock = [c \in Conns |-> NoSocket]
    /\ bcast = [b \in Broadcasts |-> NoBroadcast]
    /\ wire = [c \in Conns |-> <<>>]
    /\ faults = 0
    /\ crashes = 0
    /\ outages = 0

\* The handlers of the repair service and one StreamAllRepairs call
NextS ==
    \/ CreateRepair
    \/ UpdateRepair
    \/ StreamAllRepairs
    \/ SendInitial
    \/ WatchRepairs
    \/ StreamNext
    \/ StreamBroken

SpecS == InitS /\ [][NextS]_vars

----------------------------------------------------------------------------
(* repair-service: service.EstimateRepairCost *)

MaxEstimates == 2   \* estimates that reach the mechanics collection

\* The switch on repairType with a price for any other type as well
PriceOf_AnyType ==
    [t \in {"flat_tire", "brake_repair", "chain_replacement", "wheel"} |->
       CASE t = "flat_tire" -> 50
         [] t = "brake_repair" -> 150
         [] t = "chain_replacement" -> 80
         [] OTHER -> 10]

\* The switch on repairType
PriceOf ==
    [t \in {"flat_tire", "brake_repair", "chain_replacement"} |->
       CASE t = "flat_tire" -> 50
         [] t = "brake_repair" -> 150
         [] t = "chain_replacement" -> 80]

EstimateTypeInputs ==
    {"", "flat_tire", "brake_repair", "chain_replacement", "wheel"}
LocationInputs == {"nil", "here"}

\* The mechanics collection as GetAllMechanics returns it
MechanicsColl == << [id |-> 1], [id |-> 2] >>

\* Durations in seconds the routing service answers with; their distances
\* at 50 km/h are whole metres.
DurationInputs == {18, 36}

\* duration * (50000.0 / 3600.0)
DistanceOf(duration) == (duration * 50000) \div 3600

\* Rows of the durations matrix: the source first, then some mechanics
DurationRows ==
    UNION {[1 .. n -> DurationInputs] : n \in 0 .. (Len(MechanicsColl) + 1)}

\* What the routing request can come back with
RoutingResponses ==
    {[kind |-> k, durations |-> <<>>] :
       k \in {"transportError", "badStatus", "decodeError", "badCode"}}
    \cup {[kind |-> "Ok", durations |-> <<>>]}
    \cup {[kind |-> "Ok", durations |-> <<row>>] : row \in DurationRows}

\* The loop over the mechanics: a mechanic without a duration is skipped.
RECURSIVE MechanicInfos(_, _)
MechanicInfos(row, i) ==
    IF i > Len(MechanicsColl) THEN <<>>
    ELSE IF i + 1 > Len(row) THEN MechanicInfos(row, i + 1)
    ELSE << [id |-> MechanicsColl[i].id,
             distance |-> DistanceOf(row[i + 1])] >>
         \o MechanicInfos(row, i + 1)

\* sort.Slice with less = Distance <: any order with ascending distances,
\* the order of equal distances is not determined.
SortSlice(infos) ==
    LET n == Len(infos)
        perms == {f \in [1 .. n -> 1 .. n] :
                    \A i, j \in 1 .. n : i # j => f[i] # f[j]}
    IN  {[i \in 1 .. n |-> infos[f[i]]] :
           f \in {g \in perms :
                    \A i \in 1 .. (n - 1) :
                       infos[g[i]].distance <= infos[g[i + 1]].distance}}

\* The error returns after the request without the test of the code
RoutingFailed_NoCodeCheck(resp) ==
    resp.kind \in {"transportError", "badStatus", "decodeError"}

\* The error returns after the request: httpClient.Do failed, the status
\* is not 200, the body does not decode, the code is not "Ok".
RoutingFailed(resp) ==
    resp.kind \in {"transportError", "badStatus", "decodeError", "badCode"}

\* The routing request answered by resp, and what follows it
RouteAndBuildOf(repairType, userID, resp) ==
    IF RoutingFailed(resp)
      THEN eResult' = Estimate("RoutingFailure", <<>>, repairType)
      ELSE IF resp.durations = <<>>
        THEN eResult' = Estimate("panic", <<>>, repairType)
        ELSE \E sorted \in SortSlice(MechanicInfos(resp.durations[1], 1)) :
               eResult' = Estimate("ok",
                                   [id |-> NewObjectID(costs),
                                    userID |-> userID,
                                    repairType |-> repairType,
                                    totalPrice |-> PriceOf[repairType],
                                    mechanics |-> sorted],
                                   repairType)

RouteAndBuild(repairType, userID) ==
    \E resp \in RoutingResponses :
       RouteAndBuildOf(repairType, userID, resp)

\* service.EstimateRepairCost called with these arguments
EstimateRepairCostOf(repairType, userID, loc) ==
    IF repairType = "" \/ userID = "" \/ loc = "nil"
         \/ repairType \notin DOMAIN PriceOf
      THEN /\ eResult' = Estimate("InvalidInput", <<>>, repairType)
           /\ UNCHANGED <<mechQueries, routeCalls>>
      ELSE /\ mechQueries < MaxEstimates
           /\ mechQueries' = mechQueries + 1
           /\ \/ /\ eResult' = Estimate("StorageFailure", <<>>, repairType)
                 /\ UNCHANGED routeCalls
              \/ /\ routeCalls' = routeCalls + 1
                 /\ RouteAndBuild(repairType, userID)

EstimateRepairCost ==
    /\ \E repairType \in EstimateTypeInputs, userID \in UserInputs,
          loc \in LocationInputs :
         EstimateRepairCostOf(repairType, userID, loc)
    /\ UNCHANGED <<repairVars, broker, topic, dispVars, consVars, mechVars,
                   hubVars, quota, txs, alive, upd, tickVars, streamVars, faults, crashes, outages>>

NextE ==
    \/ EstimateRepairCost
    \/ CreateRepair

SpecE == Init /\ [][NextE]_vars

----------------------------------------------------------------------------
(* Both services on one broker *)

\* The handlers, the dispatcher, the consumer and the applier; no process
\* restarts and the broker, once up, stays up.
NextAll ==
    \/ CreateRepair
    \/ UpdateRepair
    \/ BrokerRecover
    \/ DispatcherTick
    \/ PublishAcked
    \/ MarkOutboxEventProcessed
    \/ ConsumerRead
    \/ ConsumerHandle
    \/ AutoCommit
    \/ ApplierTick
    \/ ApplierStep

\* Both services started on empty collections, with room for one outbox
\* row per repair
InitAll ==
    /\ costs = {}
    /\ repairs = {}
    /\ outbox = {}
    /\ commits = {}
    /\ result = Returned("none", "none", 0)
    /\ broker = "never"
    /\ topic = <<>>
    /\ dpc = "idle"
    /\ dBatch = <<>>
    /\ cpc = "poll"
    /\ cpos = 1
    /\ ccommitted = 1
    /\ absorbed = {}
    /\ mOutbox = {}
    /\ mRepairs = {}
    /\ aBatch = <<>>
    /\ flips = <<>>
    /\ handled = {}
    /\ quota = [repairs |-> MaxRepairs, events |-> MaxRepairs]
    /\ alive = AllAlive
    /\ upd = NoUpdate
    /\ ticker = FALSE
    /\ passes = <<>>
    /\ subs = NoSubscribers
    /\ txs = NoCalls
    /\ spc = "none"
    /\ sSnap = <<>>
    /\ sAtCall = {}
    /\ sFrom = 0
    /\ frames = <<>>
    /\ eResult = NoEstimate
    /\ mechQueries = 0
    /\ routeCalls = 0
    /\ clients = NoClients
    /\ mutex = Free
    /\ wsock = [c \in Conns |-> NoSocket]
    /\ bcast = [b \in Broadcasts |-> NoBroadcast]
    /\ wire = [c \in Conns |-> <<>>]
    /\ faults = 0
    /\ crashes = 0
    /\ outages = 0

SpecAll == InitAll /\ [][NextAll]_vars

----------------------------------------------------------------------------
(* Shutdown of the service processes *)

\* OutboxProcessor.Start and Consumer.Start leave their loops on ctx.Done(),
\* but NewService hands them context.Background(), which is never done, and
\* no code of either service waits for a signal: the signal ends the
\* process wherever its workers are.
ShutdownSignal(svc) ==
    /\ alive[svc]
    /\ alive' = [alive EXCEPT ![svc] = FALSE]
    /\ UNCHANGED <<quota, txs, upd, tickVars, streamVars, estVars, hubVars, repairVars, broker, topic,
                   dispVars, consVars, mechVars, faults, crashes, outages>>

NextD ==
    \/ alive.repair /\ CreateRepair
    \/ alive.repair /\ UpdateRepair
    \/ BrokerRecover
    \/ alive.repair /\ DispatcherTick
    \/ alive.repair /\ PublishAcked
    \/ alive.repair /\ MarkOutboxEventProcessed
    \/ alive.mechanic /\ ConsumerRead
    \/ alive.mechanic /\ ConsumerHandle
    \/ alive.mechanic /\ AutoCommit
    \/ alive.mechanic /\ ApplierTick
    \/ alive.mechanic /\ ApplierStep
    \/ \E svc \in {"repair", "mechanic"} : ShutdownSignal(svc)

SpecD == InitAll /\ [][NextD]_vars

----------------------------------------------------------------------------
(* UpdateRepair next to other clients of the database *)

\* service.UpdateRepair up to GetRepairByID, which reads outside the
\* session, before StartTransaction
UpdateRepairRead(repairID, status) ==
    /\ upd = NoUpdate
    /\ ticker = FALSE
    /\ passes = <<>>
    /\ subs = NoSubscribers
    /\ txs = NoCalls
    /\ IF repairID = 0 \/ status = "" \/ status \notin ValidStatuses
         THEN /\ result' = Returned("UpdateRepair", "InvalidInput", 0)
              /\ upd' = upd
         ELSE IF GetRepairByID(repairID) = {}
           THEN /\ result' = Returned("UpdateRepair", "NotFound", 0)
                /\ upd' = upd
           ELSE /\ \E repair \in GetRepairByID(repairID) :
                     upd' = << [repair |-> repair, status |-> status] >>
                /\ result' = result
    /\ UNCHANGED <<quota, txs, alive, tickVars, streamVars, estVars, hubVars, costs, repairs,
                   outbox, commits, broker, topic, dispVars, consVars, mechVars,
                   faults, crashes, outages>>

\* service.UpdateRepair from StartTransaction to its return
UpdateRepairTransaction ==
    /\ upd # NoUpdate
    /\ Cardinality(outbox) < quota.events
    /\ \E inject \in FailPoints(2) :
         LET r == RunTx(Store,
                        UpdateRepairWrites(Store, upd[1].repair, upd[1].status),
                        inject)
         IN  /\ Commit(r.store)
             /\ result' = Outcome("UpdateRepair", r)
             /\ faults' = Spend(inject)
    /\ upd' = NoUpdate
    /\ UNCHANGED <<quota, txs, alive, tickVars, streamVars, estVars, hubVars, broker, topic,
                   dispVars, consVars, aBatch, handled, crashes, outages>>

\* Another client of the database deletes a repair document; the service
\* itself has no delete.
RepairDocumentDeleted ==
    /\ \E d \in repairs : repairs' = repairs \ {d}
    /\ UNCHANGED <<frontVars, costs, outbox, commits, result, broker, topic,
                   dispVars, consVars, mechVars, faults, crashes, outages>>

NextU ==
    \/ CreateRepair
    \/ \E repairID \in RepairIdInputs, status \in StatusInputs :
         UpdateRepairRead(repairID, status)
    \/ UpdateRepairTransaction
    \/ RepairDocumentDeleted

SpecU == Init /\ [][NextU]_vars

----------------------------------------------------------------------------
(* The goroutine of OutboxProcessor.Start and its ticker *)

MaxPasses == 3      \* passes of processOutboxEvents in one behaviour

\* Every pass started as `go p.processOutboxEvents(ctx)`: the loop is back
\* in its select at once.
LoopInSelect_Spawning == Len(passes) >= 0

\* The for loop of Start is in its select: processOutboxEvents is called in
\* the loop's own goroutine, so every pass begun has returned.
LoopInSelect == \A i \in DOMAIN passes : passes[i].pc = "done"

Running == {i \in DOMAIN passes : passes[i].pc # "done"}

\* time.Ticker: the channel holds one tick; a tick that finds it full is
\* dropped.
TickerFires ==
    /\ ~ticker
    /\ ticker' = TRUE
    /\ UNCHANGED <<quota, txs, alive, upd, passes, streamVars, estVars, hubVars,
                   repairVars, broker, topic, dispVars, consVars, mechVars,
                   faults, crashes, outages>>

\* case <-ticker.C: processOutboxEvents is entered and loads its events;
\* with none it returns at once.
PassStart ==
    /\ ticker
    /\ LoopInSelect
    /\ Len(passes) < MaxPasses
    /\ ticker' = FALSE
    /\ passes' = Append(passes,
                        [pc    |-> IF GetUnprocessedOutboxEvents = <<>>
                                     THEN "done" ELSE "publish",
                         batch |-> GetUnprocessedOutboxEvents])
    /\ UNCHANGED <<quota, txs, alive, upd, streamVars, estVars, hubVars, repairVars,
                   broker, topic, dispVars, consVars, mechVars, faults, crashes,
                   outages>>

\* The loop of pass i goes on to the next event.
PassNextEvent(i) ==
    passes' = [passes EXCEPT ![i] =
                 [pc    |-> IF Tail(@.batch) = <<>> THEN "done" ELSE "publish",
                  batch |-> Tail(@.batch)]]

\* Pass i waits in PublishOutboxEvent until the delivery report arrives.
PassPublishAcked(i) ==
    /\ passes[i].pc = "publish"
    /\ broker = "up"
    /\ topic' = Append(topic, [payload |-> OutboxRow(Head(passes[i].batch)).payload,
                               src |-> Head(passes[i].batch)])
    /\ passes' = [passes EXCEPT ![i].pc = "mark"]
    /\ UNCHANGED <<quota, txs, alive, upd, ticker, streamVars, estVars, hubVars,
                   repairVars, broker, dispVars, consVars, mechVars, faults,
                   crashes, outages>>

PassPublishFailed(i) ==
    /\ passes[i].pc = "publish"
    /\ broker # "up"
    /\ PassNextEvent(i)
    /\ UNCHANGED <<quota, txs, alive, upd, ticker, streamVars, estVars, hubVars,
                   repairVars, broker, topic, dispVars, consVars, mechVars,
                   faults, crashes, outages>>

PassMark(i) ==
    /\ passes[i].pc = "mark"
    /\ outbox' = {IF d.id = Head(passes[i].batch)
                    THEN [d EXCEPT !.processed = TRUE]
                    ELSE d : d \in outbox}
    /\ PassNextEvent(i)
    /\ UNCHANGED <<quota, txs, alive, upd, ticker, streamVars, estVars, hubVars, costs,
                   repairs, commits, result, broker, topic, dispVars, consVars,
                   mechVars, faults, crashes, outages>>

NextT ==
    \/ CreateRepair
    \/ UpdateRepair
    \/ BrokerRecover
    \/ TickerFires
    \/ PassStart
    \/ \E i \in DOMAIN passes : PassPublishAcked(i)
    \/ \E i \in DOMAIN passes : PassPublishFailed(i)
    \/ \E i \in DOMAIN passes : PassMark(i)

SpecT == Init /\ [][NextT]_vars

----------------------------------------------------------------------------
(* The repair service with room for a second repair *)

\* As Init, with as many repairs allowed as outbox rows: a repair can be
\* created while the dispatcher works on the row of an earlier one.
InitW ==
    /\ costs = {}
    /\ repairs = {}
    /\ outbox = {}
    /\ commits = {}
    /\ result = Returned("none", "none", 0)
    /\ broker = "never"
    /\ topic = <<>>
    /\ dpc = "idle"
    /\ dBatch = <<>>
    /\ cpc = "poll"
    /\ cpos = 1
    /\ ccommitted = 1
    /\ absorbed = {}
    /\ mOutbox = {}
    /\ mRepairs = {}
    /\ aBatch = <<>>
    /\ flips = <<>>
    /\ handled = {}
    /\ quota = [repairs |-> MaxEvents, events |-> MaxEvents]
    /\ alive = AllAlive
    /\ upd = NoUpdate
    /\ ticker = FALSE
    /\ passes = <<>>
    /\ subs = NoSubscribers
    /\ txs = NoCalls
    /\ spc = "none"
    /\ sSnap = <<>>
    /\ sAtCall = {}
    /\ sFrom = 0
    /\ frames = <<>>
    /\ eResult = NoEstimate
    /\ mechQueries = 0
    /\ routeCalls = 0
    /\ clients = NoClients
    /\ mutex = Free
    /\ wsock = [c \in Conns |-> NoSocket]
    /\ bcast = [b \in Broadcasts |-> NoBroadcast]
    /\ wire = [c \in Conns |-> <<>>]
    /\ faults = 0
    /\ crashes = 0
    /\ outages = 0

\* The handlers and the dispatcher of a process that keeps running on a
\* broker that, once up, stays up
NextW ==
    \/ CreateRepair
    \/ UpdateRepair
    \/ BrokerRecover
    \/ DispatcherTick
    \/ PublishAcked
    \/ PublishFailed
    \/ MarkOutboxEventProcessed

SpecW == InitW /\ [][NextW]_vars

----------------------------------------------------------------------------
(* Several subscribers of StreamAllRepairs *)

\* Each call runs in the goroutine gRPC gives it, with its own repairs
\* slice, its own change stream and its own stream; the calls share the
\* repository only.
SubUnchanged ==
    UNCHANGED <<quota, txs, alive, upd, tickVars, spc, sSnap, sAtCall, sFrom, frames,
                estVars, hubVars, repairVars, broker, topic, dispVars, consVars,
                mechVars, crashes, outages>>

SubPending(s) == {m \in Inserts : m.tx > subs[s].from}

SubNextInsert(s) ==
    CHOOSE m \in SubPending(s) : \A o \in SubPending(s) : m.tx <= o.tx

\* The call of subscriber s starts and reads the existing repairs.
SubCall(s) ==
    /\ subs[s].pc = "none"
    /\ \A t \in Subscribers : t < s => subs[t].pc # "none"
    /\ subs' = [subs EXCEPT ![s] = [@ EXCEPT !.pc = "initial",
                                             !.snap = GetAllRepairs]]
    /\ faults' = faults
    /\ SubUnchanged

\* stream.Send of one repair of the initial read returns nil
SubSendInitial(s) ==
    /\ subs[s].pc = "initial"
    /\ subs[s].snap # <<>>
    /\ subs' = [subs EXCEPT ![s] =
                  [@ EXCEPT !.frames = Append(@, Frame(Head(subs[s].snap), "initial")),
                            !.snap = Tail(@)]]
    /\ faults' = faults
    /\ SubUnchanged

\* WatchRepairs of the call of s
SubWatch(s) ==
    /\ subs[s].pc = "initial"
    /\ subs[s].snap = <<>>
    /\ subs' = [subs EXCEPT ![s] = [@ EXCEPT !.pc = "tail",
                                             !.from = LastCommitted]]
    /\ faults' = faults
    /\ SubUnchanged

\* changeStream.Next, Decode and a stream.Send that returns nil
SubNext(s) ==
    /\ subs[s].pc = "tail"
    /\ SubPending(s) # {}
    /\ subs' = [subs EXCEPT ![s] =
                  [@ EXCEPT !.frames = Append(@, Frame([id |-> SubNextInsert(s).id,
                                                        status |-> SubNextInsert(s).status],
                                                       "tail")),
                            !.from = SubNextInsert(s).tx]]
    /\ faults' = faults
    /\ SubUnchanged

\* stream.Send returns an error and the loop goes on with the next repair
SubSendFails_Continue(s) ==
    /\ Adverse < MaxFaults
    /\ \/ /\ subs[s].pc = "initial"
          /\ subs[s].snap # <<>>
          /\ subs' = [subs EXCEPT ![s] = [@ EXCEPT !.snap = Tail(@)]]
       \/ /\ subs[s].pc = "tail"
          /\ SubPending(s) # {}
          /\ subs' = [subs EXCEPT ![s] = [@ EXCEPT !.from = SubNextInsert(s).tx]]
    /\ faults' = faults + 1
    /\ SubUnchanged

\* stream.Send returns an error: `return err`, the call of s is over.
SubSendFails(s) ==
    /\ Adverse < MaxFaults
    /\ \/ subs[s].pc = "initial" /\ subs[s].snap # <<>>
       \/ subs[s].pc = "tail" /\ SubPending(s) # {}
    /\ subs' = [subs EXCEPT ![s] = [@ EXCEPT !.pc = "closed", !.snap = <<>>]]
    /\ faults' = faults + 1
    /\ SubUnchanged

NextG ==
    \/ CreateRepair
    \/ UpdateRepair
    \/ \E s \in Subscribers : SubCall(s)
    \/ \E s \in Subscribers : SubSendInitial(s)
    \/ \E s \in Subscribers : SubWatch(s)
    \/ \E s \in Subscribers : SubNext(s)
    \/ \E s \in Subscribers : SubSendFails(s)

SpecG == InitW /\ [][NextG]_vars

----------------------------------------------------------------------------
(* UpdateRepair calls that overlap *)

TxStatusInputs == {"in_progress", "completed"}

TxUnchanged ==
    UNCHANGED <<quota, alive, upd, tickVars, streamVars, estVars, hubVars, broker,
                topic, dispVars, consVars, aBatch, handled, crashes, outages>>

TxStoreUnchanged ==
    UNCHANGED <<costs, repairs, outbox, commits, mOutbox, mRepairs, flips>>

\* Outbox rows inserted on the sessions of transactions not yet committed
Staged == {txs[c].event[1] : c \in {d \in Callers : txs[d].pc = "saved"}}

\* service.UpdateRepair of caller c up to StartTransaction: the status is
\* valid and GetRepairByID has found the repair.
TxRead(c, repairID, status) ==
    /\ txs[c].pc = "none"
    /\ \A d \in Callers : d < c => txs[d].pc # "none"
    /\ Cardinality(outbox) + Cardinality({d \in Callers :
                                            txs[d].pc \in {"read", "updated", "saved"}})
         < quota.events
    /\ \E repair \in GetRepairByID(repairID) :
         txs' = [txs EXCEPT ![c] = [pc |-> "read", repair |-> repair,
                                    status |-> status, event |-> << >>]]
    /\ UNCHANGED <<result, faults>>
    /\ TxStoreUnchanged
    /\ TxUnchanged

\* UpdateOne that never meets a write conflict
WriteConflict_Never(c) == c \notin Callers

\* The document UpdateOne is to write has been written by a transaction
\* that has not ended: the server answers WriteConflict.
WriteConflict(c) ==
    \E o \in Callers \ {c} :
        /\ txs[o].pc \in {"updated", "saved"}
        /\ txs[o].repair.id = txs[c].repair.id

\* s.repo.UpdateRepair(sc, repairID, status) in the closure: on an error the
\* closure returns it and the transaction is aborted.
TxUpdateOne(c) ==
    /\ txs[c].pc = "read"
    /\ IF WriteConflict(c)
         THEN /\ txs' = [txs EXCEPT ![c].pc = "done"]
              /\ result' = Returned("UpdateRepair", "StorageFailure", 1)
         ELSE /\ txs' = [txs EXCEPT ![c].pc = "updated"]
              /\ result' = result
    /\ faults' = faults
    /\ TxStoreUnchanged
    /\ TxUnchanged

\* The event is built from the repair read before the transaction, with the
\* new status, and saved on the session.
TxSaveOutboxEvent(c) ==
    /\ txs[c].pc = "updated"
    /\ LET S       == [Store EXCEPT !.outbox = @ \cup Staged]
           updated == [txs[c].repair EXCEPT !.status = txs[c].status]
       IN  txs' = [txs EXCEPT ![c] =
                     [@ EXCEPT !.pc = "saved",
                               !.event = << NewOutboxEvent(S, "RepairUpdated",
                                                           Envelope(ToEvent(updated))) >>]]
    /\ UNCHANGED <<result, faults>>
    /\ TxStoreUnchanged
    /\ TxUnchanged

\* session.CommitTransaction: both writes take effect, or it fails and
\* neither does.
TxCommit(c) ==
    /\ txs[c].pc = "saved"
    /\ \E inject \in {0} \cup (FailPoints(2) \cap {3}) :
         LET event == txs[c].event[1]
             r     == RunTx(Store,
                            << UpdateRepairStatus(txs[c].repair.id, txs[c].status,
                                                  event.tx),
                               SaveOutboxEvent(event) >>,
                            inject)
         IN  /\ Commit(r.store)
             /\ result' = Outcome("UpdateRepair", r)
             /\ faults' = Spend(inject)
    /\ txs' = [txs EXCEPT ![c].pc = "done"]
    /\ TxUnchanged

NextC ==
    \/ CreateRepair
    \/ \E c \in Callers, repairID \in RepairIdInputs, status \in TxStatusInputs :
         TxRead(c, repairID, status)
    \/ \E c \in Callers : TxUpdateOne(c)
    \/ \E c \in Callers : TxSaveOutboxEvent(c)
    \/ \E c \in Callers : TxCommit(c)

SpecC == InitS /\ [][NextC]_vars

----------------------------------------------------------------------------
(* api-gateway: the websocket hub of RepairHandler *)

\* h.clients[userID]; a missing key reads as the empty slice.
ClientsOf(m, user) == IF user \in DOMAIN m THEN m[user] ELSE <<>>

\* h.clients[userID] = conns
PutClients(m, user, conns) ==
    [k \in DOMAIN m \cup {user} |-> IF k = user THEN conns ELSE m[k]]

\* delete(h.clients, userID)
DeleteClients(m, user) == [k \in DOMAIN m \ {user} |-> m[k]]

\* append(clients[:i], clients[i+1:]...) for the i with clients[i] == conn
WithoutConn(conns, conn) == SelectSeq(conns, LAMBDA x : x # conn)

\* HandleWebSocket up to the upgrade: a request without userID, or whose
\* upgrade fails, is answered with an error.  Connections are numbered in
\* the order of their requests.
HandleWebSocket(c) ==
    /\ wsock[c].pc = "idle"
    /\ \A d \in Conns : d < c => wsock[d].pc # "idle"
    /\ \E user \in Users \cup {""}, upgraded \in BOOLEAN :
         wsock' = [wsock EXCEPT ![c] =
                     IF user = "" \/ ~upgraded
                       THEN [pc |-> "refused", user |-> "", open |-> FALSE]
                       ELSE [pc |-> "connected", user |-> user,
                             open |-> TRUE]]
    /\ UNCHANGED <<quota, txs, alive, upd, tickVars, streamVars, estVars, clients, mutex, bcast, wire,
                   repairVars, broker, topic, dispVars, consVars, mechVars,
                   faults, crashes, outages>>

\* Lock; h.clients[userID] = append(h.clients[userID], conn); Unlock.
\* Nothing between Lock and Unlock waits, so the three are one step, taken
\* when the mutex is free.
WsRegister(c) ==
    /\ wsock[c].pc = "connected"
    /\ mutex = Free
    /\ clients' = PutClients(clients, wsock[c].user,
                             Append(ClientsOf(clients, wsock[c].user), c))
    /\ wsock' = [wsock EXCEPT ![c].pc = "reading"]
    /\ UNCHANGED <<quota, txs, alive, upd, tickVars, streamVars, estVars, mutex, bcast, wire,
                   repairVars, broker, topic, dispVars, consVars, mechVars,
                   faults, crashes, outages>>

\* conn.ReadMessage returns an error: the peer left or the connection was
\* closed.
WsReadError(c) ==
    /\ wsock[c].pc = "reading"
    /\ wsock' = [wsock EXCEPT ![c].pc = "leaving"]
    /\ UNCHANGED <<quota, txs, alive, upd, tickVars, streamVars, estVars, clients, mutex, bcast, wire,
                   repairVars, broker, topic, dispVars, consVars, mechVars,
                   faults, crashes, outages>>

\* The deferred removal, one step as well: Lock; the connection leaves its
\* slice, an empty slice leaves the map; Unlock; conn.Close.
WsUnregister(c) ==
    /\ wsock[c].pc = "leaving"
    /\ mutex = Free
    /\ LET user == wsock[c].user
           rest == WithoutConn(ClientsOf(clients, user), c)
       IN  clients' = IF rest = <<>>
                        THEN DeleteClients(clients, user)
                        ELSE PutClients(clients, user, rest)
    /\ wsock' = [wsock EXCEPT ![c].pc = "closed", ![c].open = FALSE]
    /\ UNCHANGED <<quota, txs, alive, upd, tickVars, streamVars, estVars, mutex, bcast, wire,
                   repairVars, broker, topic, dispVars, consVars, mechVars,
                   faults, crashes, outages>>

\* RepairHandler.UpdateRepair up to the call of broadcastStatusUpdate: the
\* repair service confirms the update or the handler answers with an
\* error; user is the owner the repair service names.  Calls are numbered
\* in the order they are made.
GatewayUpdateRepair(b) ==
    /\ bcast[b].pc = "idle"
    /\ \A a \in Broadcasts : a < b => bcast[a].pc # "idle"
    /\ \E user \in Users, confirmed \in BOOLEAN :
         bcast' = [bcast EXCEPT ![b] =
                     [pc |-> IF confirmed THEN "call" ELSE "failed",
                      user |-> IF confirmed THEN user ELSE "",
                      left |-> <<>>,
                      after |-> IF confirmed
                                  THEN {a \in Broadcasts :
                                          bcast[a].pc = "done"}
                                  ELSE {}]]
    /\ UNCHANGED <<quota, txs, alive, upd, tickVars, streamVars, estVars, clients, mutex, wsock, wire,
                   repairVars, broker, topic, dispVars, consVars, mechVars,
                   faults, crashes, outages>>

\* broadcastStatusUpdate that does not wait for clientsMutex
BcLock_NoMutex(b) ==
    /\ bcast[b].pc = "call"
    /\ IF bcast[b].user \notin DOMAIN clients
         THEN /\ bcast' = [bcast EXCEPT ![b].pc = "done"]
              /\ UNCHANGED mutex
         ELSE /\ mutex' = <<"bc", b>>
              /\ bcast' = [bcast EXCEPT ![b].pc = "writing",
                                        ![b].left = clients[bcast[b].user]]
    /\ UNCHANGED <<quota, txs, alive, upd, tickVars, streamVars, estVars, clients, wsock, wire,
                   repairVars, broker, topic, dispVars, consVars, mechVars,
                   faults, crashes, outages>>

\* broadcastStatusUpdate: Lock and the lookup of update.UserID; without
\* the key the call returns and the deferred Unlock runs.
BcLock(b) ==
    /\ bcast[b].pc = "call"
    /\ mutex = Free
    /\ IF bcast[b].user \notin DOMAIN clients
         THEN /\ bcast' = [bcast EXCEPT ![b].pc = "done"]
              /\ UNCHANGED mutex
         ELSE /\ mutex' = <<"bc", b>>
              /\ bcast' = [bcast EXCEPT ![b].pc = "writing",
                                        ![b].left = clients[bcast[b].user]]
    /\ UNCHANGED <<quota, txs, alive, upd, tickVars, streamVars, estVars, clients, wsock, wire,
                   repairVars, broker, topic, dispVars, consVars, mechVars,
                   faults, crashes, outages>>

\* The message of a broadcast; `call` is a history field.
StatusUpdate(b) == [call |-> b, userID |-> bcast[b].user]

\* The message written to every open connection of the hub, whatever the
\* user it is registered under
BcWrite_AllUsers(b) ==
    /\ bcast[b].pc = "writing"
    /\ bcast[b].left # <<>>
    /\ wire' = [c \in Conns |->
                  IF wsock[c].open /\ wsock[c].pc = "reading"
                    THEN Append(wire[c], StatusUpdate(b))
                    ELSE wire[c]]
    /\ bcast' = [bcast EXCEPT ![b].left = Tail(@)]
    /\ UNCHANGED <<quota, txs, alive, upd, tickVars, streamVars, estVars, clients, mutex,
                   wsock, faults, repairVars, broker, topic, dispVars, consVars,
                   mechVars, crashes, outages>>

\* One iteration of the loop over clients: conn.WriteMessage, and
\* conn.Close when it fails.  A write to a closed connection fails.
BcWrite(b) ==
    /\ bcast[b].pc = "writing"
    /\ bcast[b].left # <<>>
    /\ LET conn == Head(bcast[b].left)
       IN  \/ /\ wsock[conn].open
              /\ wire' = [wire EXCEPT ![conn] = Append(@, StatusUpdate(b))]
              /\ UNCHANGED <<wsock, faults>>
           \/ /\ wsock[conn].open
              /\ Adverse < MaxFaults
              /\ faults' = faults + 1
              /\ wsock' = [wsock EXCEPT ![conn].open = FALSE]
              /\ UNCHANGED wire
           \/ /\ ~wsock[conn].open
              /\ UNCHANGED <<wsock, wire, faults>>
    /\ bcast' = [bcast EXCEPT ![b].left = Tail(@)]
    /\ UNCHANGED <<quota, txs, alive, upd, tickVars, streamVars, estVars, clients, mutex,
                   repairVars, broker, topic, dispVars, consVars, mechVars,
                   crashes, outages>>

\* The loop is over: the deferred Unlock runs and the call returns.
BcReturn(b) ==
    /\ bcast[b].pc = "writing"
    /\ bcast[b].left = <<>>
    /\ mutex' = Free
    /\ bcast' = [bcast EXCEPT ![b].pc = "done"]
    /\ UNCHANGED <<quota, txs, alive, upd, tickVars, streamVars, estVars, clients, wsock, wire,
                   repairVars, broker, topic, dispVars, consVars, mechVars,
                   faults, crashes, outages>>

NextH ==
    \/ \E c \in Conns : HandleWebSocket(c)
    \/ \E c \in Conns : WsRegister(c)
    \/ \E c \in Conns : WsReadError(c)
    \/ \E c \in Conns : WsUnregister(c)
    \/ \E b \in Broadcasts : GatewayUpdateRepair(b)
    \/ \E b \in Broadcasts : BcLock(b)
    \/ \E b \in Broadcasts : BcWrite(b)
    \/ \E b \in Broadcasts : BcReturn(b)

SpecH == Init /\ [][NextH]_vars

----------------------------------------------------------------------------
(* Properties of the repair service *)

EventOf(row) == AvroUnmarshal(Body(row.payload))

Created == {e \in outbox : e.eventType = "RepairCreated"}

\* C1: a repair row is in the store if and only if its repair_costs row and
\* its RepairCreated outbox row are: no state holds only some of the three,
\* also after CreateRepair calls that failed inside the transaction.
C1_CreateAllOrNothing ==
    /\ \A r \in repairs :
         /\ \E c \in costs : c.id = r.cost.id
         /\ \E e \in Created : EventOf(e).id = r.id
    /\ \A c \in costs : \E r \in repairs : r.cost.id = c.id
    /\ \A e \in Created : \E r \in repairs : r.id = EventOf(e).id

\* A CreateRepair whose outbox insert failed after its cost and repair
\* inserts had been issued.
C1_Witness ==
    /\ result = Returned("CreateRepair", "StorageFailure", 3)
    /\ faults > 0
    /\ repairs = {}

\* C2: every committed domain mutation has exactly one outbox row of its
\* transaction, carrying its repair and status, and every outbox row belongs
\* to exactly one committed mutation.
C2_OneOutboxRowPerMutation ==
    /\ \A m \in commits :
         /\ Cardinality({e \in outbox : e.tx = m.tx}) = 1
         /\ \A e \in outbox :
              e.tx = m.tx =>
                /\ e.eventType = IF m.kind = "create" THEN "RepairCreated"
                                                      ELSE "RepairUpdated"
                /\ EventOf(e).id = m.id
                /\ EventOf(e).status = m.status
    /\ \A e \in outbox : Cardinality({m \in commits : m.tx = e.tx}) = 1

\* A create and an update have committed, after a transaction that failed.
C2_Witness ==
    /\ faults > 0
    /\ result = Returned("UpdateRepair", "ok", 0)
    /\ \E m \in commits : m.kind = "create"
    /\ \E m \in commits : m.kind = "update"

OnTopic(row) ==
    \E i \in DOMAIN topic :
       topic[i].src = row.id /\ topic[i].payload = row.payload

\* C3: an outbox row is processed only if the broker acknowledged a message
\* with that row's payload.
C3_ProcessedOnlyAfterAck ==
    \A e \in outbox : e.processed => OnTopic(e)

\* A row has been flipped after a broker outage.
C3_Witness ==
    /\ outages > 0
    /\ \E e \in outbox : e.processed

----------------------------------------------------------------------------
(* The dispatcher under its scheduling: the ticker fires every PollInterval,
   a started pass runs to its end, and an unreachable broker comes back. *)
Fairness ==
    /\ WF_vars(DispatcherTick)
    /\ WF_vars(PublishAcked \/ PublishFailed)
    /\ WF_vars(MarkOutboxEventProcessed)
    /\ WF_vars(BrokerRecover)

LiveSpec == Spec /\ Fairness

RowIds == 1 .. MaxEvents

HasRow(k) == \E e \in outbox : e.id = k

Unprocessed(k) == \E e \in outbox : e.id = k /\ ~e.processed

Copies(k) == Cardinality({i \in DOMAIN topic : topic[i].src = k})

InBatch(k, batch) == \E i \in DOMAIN batch : batch[i] = k

\* C4: every committed outbox row is eventually published and marked
\* processed; a publish that fails leaves the row unprocessed, and every pass
\* the ticker starts takes up every unprocessed row again.
C4_EventuallyPublishedAndProcessed ==
    /\ \A k \in RowIds :
         HasRow(k) ~> (\E e \in outbox : e.id = k /\ e.processed /\ OnTopic(e))
    /\ [][\A k \in RowIds :
            /\ (dpc = "publish" /\ Head(dBatch) = k /\ topic' = topic
                  /\ dBatch' # dBatch)
               => Unprocessed(k)'
            /\ (dpc = "idle" /\ dpc' = "publish" /\ Unprocessed(k))
               => InBatch(k, dBatch')]_vars

\* Every row has been published and flipped after a broker outage during
\* which a publish failed.
C4_Witness ==
    /\ outages > 0
    /\ broker = "up"
    /\ Cardinality(outbox) > 1
    /\ \A e \in outbox : e.processed /\ OnTopic(e)

\* Copies on the topic when the service died: none (the crash came before
\* the publish) or one (it came between the acknowledgement and the flip)
CopyCounts == {0, 1}

\* A restarted service with no dispatcher pass under way
Restarted == crashes > 0 /\ dBatch = <<>>

\* C5: a row that a restarted repair service finds unprocessed, whether the
\* crash came before its publish or between the acknowledgement and the
\* flip, is published by the restarted dispatcher: once more if it was
\* already on the topic (at-least-once delivery).
C5_PublishedAgainAfterRestart ==
    \A k \in RowIds : \A n \in CopyCounts :
       (Restarted /\ Unprocessed(k) /\ Copies(k) = n) ~> (Copies(k) > n)

\* The service crashed between the acknowledgement and the flip, and the row
\* went to the topic a second time.
C5_Witness ==
    /\ crashes > 0
    /\ faults = 0
    /\ \E k \in RowIds : Copies(k) >= 2

\* C6: while the broker has never been reachable, CreateRepair calls return
\* with success, their outbox rows stay unprocessed and the topic holds no
\* message.
C6_CreateDoesNotWaitForBroker ==
    broker = "never" =>
       /\ topic = <<>>
       /\ \A e \in outbox : ~e.processed
       /\ (result.op = "CreateRepair" /\ result.res = "ok") => outbox # {}

\* CreateRepair has returned success with the broker down, and a dispatcher
\* pass is about to publish the row.
C6_Witness ==
    /\ broker = "never"
    /\ result = Returned("CreateRepair", "ok", 0)
    /\ Unprocessed(1)
    /\ dpc = "publish" /\ Head(dBatch) = 1

----------------------------------------------------------------------------
(* Properties of the mechanic service *)

InboxEventOf(row) == AvroUnmarshal(Body(row.payload))

\* C7: however often an event is delivered, and however deliveries and
\* applier passes interleave, the mechanic-side repairs collection holds at
\* most one row per event id.
C7_AtMostOneRepairPerEvent ==
    \A r1, r2 \in mRepairs : r1.repairID = r2.repairID => r1 = r2

\* Two mechanic_outbox rows carry the same event, the applier has run both
\* to completion, and the repair is there.
C7_Witness ==
    \E a, b \in mOutbox :
       /\ a.id # b.id
       /\ a.payload = b.payload
       /\ {a.id, b.id} \subseteq handled
       /\ \E r \in mRepairs : r.repairID = InboxEventOf(a).id

C9_HandledRowFlippedOnce ==
    \A id \in handled : flips[id] = 1

\* Offsets below the committed offset
CommittedOffsets == 1 .. (ccommitted - 1)

\* C10: an offset is committed only after the transaction that inserts the
\* message's mechanic_outbox row has committed.
C10_CommitAfterInsert ==
    \A o \in CommittedOffsets :
       TooShort(topic[o].payload) \/ \E d \in mOutbox : d.koff = o

\* Offsets the consumer's position has passed
PassedOffsets == 1 .. (cpos - 1)

\* C11: a message with a valid envelope whose handling failed is not passed
\* over: whenever the loop is back at ReadMessage, every valid message below
\* the consumer's position has its mechanic_outbox row.
C11_FailedMessageNotPassedOver ==
    cpc = "poll" =>
       \A o \in PassedOffsets :
          TooShort(topic[o].payload) \/ \E d \in mOutbox : d.koff = o

\* The outbox row of the repair service a mechanic_outbox row came from
SourceRow(row) == OutboxRow(topic[row.koff].src)

\* Row b is the last row landed for its repair and every landed row of that
\* repair has been run to completion by the applier.
AllApplied(b) ==
    \A c \in mOutbox :
       InboxEventOf(c).id = InboxEventOf(b).id =>
          c.koff <= b.koff /\ c.id \in handled

\* The mechanic side holds one row for the repair of b, with b's status.
HoldsStatusOf(b) ==
    /\ Cardinality({r \in mRepairs : r.repairID = InboxEventOf(b).id}) = 1
    /\ \A r \in mRepairs :
          r.repairID = InboxEventOf(b).id => r.status = InboxEventOf(b).status

FramesOf(via) == {i \in DOMAIN frames : frames[i].via = via}
Delivered == {frames[i].id : i \in DOMAIN frames}

\* C14: once a subscriber's stream is tailing and has no insert event left
\* to deliver, every repair in the store has been sent to it in a frame,
\* also a repair inserted between the initial read and the opening of the
\* change stream.
C14_InsertedAfterSnapshotDelivered ==
    (spc = "tail" /\ Pending = {}) => Ids(repairs) \subseteq Delivered

InsertOf(id) == CHOOSE m \in Inserts : m.id = id

\* C15: the frames of a StreamAllRepairs call start with the frames of the
\* initial read, which hold each repair stored when the call began at most
\* once and, once the read is sent, exactly once; the frames after them are
\* of repairs created later, each once, in the order of their creation.
C15_SnapshotThenCreationOrder ==
    /\ \A i \in FramesOf("tail") : \A j \in FramesOf("initial") : j < i
    /\ \A i, j \in DOMAIN frames : i < j => frames[i].id # frames[j].id
    /\ {frames[i].id : i \in FramesOf("initial")} \subseteq sAtCall
    /\ spc = "tail" => {frames[i].id : i \in FramesOf("initial")} = sAtCall
    /\ \A i \in FramesOf("tail") : frames[i].id \notin sAtCall
    /\ \A i, j \in FramesOf("tail") :
          i < j => InsertOf(frames[i].id).tx < InsertOf(frames[j].id).tx

C15_Witness ==
    /\ Len(frames) = 3
    /\ frames[1].via = "initial"
    /\ frames[2].via = "tail"
    /\ frames[3].via = "tail"
    /\ C15_SnapshotThenCreationOrder


Rejected(op) == result'.op = op /\ result'.res \in {"InvalidInput", "NotFound"}

\* C16: a CreateRepair call whose cost is missing, or has an empty userID,
\* an empty repairType or a totalPrice of 0 or less, returns the input
\* error and leaves repair_costs, repairs and outbox as they were.
C16_InvalidCreateWritesNothing ==
    [][\A cost \in CostInputs :
         ( /\ \/ IsNil(cost)
              \/ cost.userID = ""
              \/ cost.repairType = ""
              \/ cost.totalPrice <= 0
           /\ CreateRepairOf(cost) )
         => /\ Rejected("CreateRepair")
            /\ UNCHANGED <<costs, repairs, outbox>>]_vars

\* An invalid CreateRepair has been rejected with a repair in the store.
C16_Witness ==
    /\ result = Returned("CreateRepair", "InvalidInput", 0)
    /\ repairs # {}
    /\ Cardinality(outbox) = Cardinality(commits)

\* C17: an UpdateRepair call with an empty ID, with a status outside
\* {pending, in_progress, completed, cancelled} or with the ID of no stored
\* repair returns an error and leaves every repair and the outbox as they
\* were.
C17_InvalidUpdateWritesNothing ==
    [][\A repairID \in RepairIdInputs, status \in StatusInputs :
         ( /\ \/ repairID = 0
              \/ status \notin {"pending", "in_progress", "completed",
                                "cancelled"}
              \/ repairID \notin Ids(repairs)
           /\ UpdateRepairOf(repairID, status) )
         => /\ Rejected("UpdateRepair")
            /\ UNCHANGED <<repairs, outbox>>]_vars

\* An UpdateRepair call has been rejected for its ID with a repair in the
\* store.
C17_Witness ==
    /\ result = Returned("UpdateRepair", "NotFound", 0)
    /\ repairs # {}


\* Values that pass the validation of the envelope: five bytes or more,
\* the first of them 0
ValidEnvelope(payload) == ~TooShort(payload) /\ payload[1] = 0

\* C18: a message whose value is shorter than 5 bytes or does not start
\* with byte 0 is never decoded and leads to no repairs row: every repairs
\* row of the mechanic side holds the event of a message whose value passes
\* the validation of the envelope.
C18_InvalidEnvelopeRejected ==
    \A r \in mRepairs :
       \E o \in DOMAIN topic :
          /\ ValidEnvelope(topic[o].payload)
          /\ ~Undecodable(topic[o].payload)
          /\ AvroUnmarshal(Body(topic[o].payload)).id = r.repairID

\* The event the transaction of an outbox row encoded: the repair of its
\* commit with the status the commit wrote.
EncodedEvent(row) ==
    LET m      == CHOOSE c \in commits : c.tx = row.tx
        repair == CHOOSE d \in repairs : d.id = m.id
    IN  ToEvent([repair EXCEPT !.status = m.status])

C20_UnknownTypeRejectedUnqueried ==
    [][\A repairType \in EstimateTypeInputs, userID \in UserInputs,
          loc \in LocationInputs :
         ( /\ repairType \notin {"flat_tire", "brake_repair",
                                 "chain_replacement"}
           /\ EstimateRepairCostOf(repairType, userID, loc) )
         => /\ eResult'.res = "InvalidInput"
            /\ UNCHANGED <<mechQueries, routeCalls>>]_vars

\* An estimate for an unknown type has been rejected after an estimate
\* that queried the mechanics and the routing service.
C20_Witness ==
    /\ eResult = Estimate("InvalidInput", <<>>, "wheel")
    /\ mechQueries > 0
    /\ routeCalls > 0


\* C21: the mechanics of a returned cost are in ascending order of
\* distance, and of two mechanics at the same distance the one with the
\* smaller ID comes first.
C21_SortedByDistanceThenId ==
    eResult.res = "ok" =>
       \A i, j \in DOMAIN eResult.cost.mechanics :
          i < j =>
             LET a == eResult.cost.mechanics[i]
                 b == eResult.cost.mechanics[j]
             IN  \/ a.distance < b.distance
                 \/ a.distance = b.distance /\ a.id < b.id


\* C22: a step of EstimateRepairCost leaves repair_costs, repairs and the
\* outbox as they were, and a call whose routing request failed, or was
\* answered with a status or a code other than Ok, returns an error and no
\* cost.
C22_EstimateWritesNothing ==
    [][/\ (eResult' # eResult \/ mechQueries' # mechQueries)
             => UNCHANGED <<costs, repairs, outbox, commits>>
       /\ \A repairType \in DOMAIN PriceOf, userID \in UserInputs \ {""},
             resp \in RoutingResponses :
            ( /\ resp.kind # "Ok"
              /\ routeCalls' = routeCalls + 1
              /\ RouteAndBuildOf(repairType, userID, resp) )
            => /\ eResult'.res = "RoutingFailure"
               /\ eResult'.cost = <<>>]_vars

\* An estimate has failed at the routing service with a repair in the
\* store.
C22_Witness ==
    /\ eResult = Estimate("RoutingFailure", <<>>, "flat_tire")
    /\ routeCalls > 0
    /\ repairs # {}
    /\ Cardinality(costs) = Cardinality(repairs)


\* Position of the write of call b on connection c, 0 without one
WrittenAt(c, b) ==
    IF \E i \in DOMAIN wire[c] : wire[c][i].call = b
      THEN CHOOSE i \in DOMAIN wire[c] : wire[c][i].call = b
      ELSE 0

\* C23: the hub map changes only while no broadcast holds clientsMutex,
\* a broadcast writes only while it holds the mutex, so at most one writes
\* at a time, and the writes on a connection follow the order of the
\* broadcast calls: a call made after another had returned is written
\* after it, and two calls are written in the same order on every
\* connection.
C23_HubUnderMutexInCallOrder ==
    /\ [](/\ \A b \in Broadcasts :
               bcast[b].pc = "writing" => mutex = <<"bc", b>>
          /\ \A c \in Conns : \A a, b \in Broadcasts :
               (a \in bcast[b].after /\ WrittenAt(c, b) > 0)
                  => WrittenAt(c, a) < WrittenAt(c, b)
          /\ \A c, d \in Conns : \A a, b \in Broadcasts :
               ( /\ WrittenAt(c, a) > 0 /\ WrittenAt(d, a) > 0
                 /\ WrittenAt(c, a) < WrittenAt(c, b) )
                  => WrittenAt(d, a) < WrittenAt(d, b) \/ WrittenAt(d, b) = 0)
    /\ [][clients' # clients => mutex = Free]_vars

\* Two broadcasts for the same user have each written to both of the
\* user's connections, the second call made before the first returned.
C23_Witness ==
    /\ \A c \in Conns : Len(wire[c]) = 2
    /\ \E a, b \in Broadcasts :
         /\ a # b
         /\ bcast[a].pc = "done" /\ bcast[b].pc = "done"
         /\ a \notin bcast[b].after /\ b \notin bcast[a].after


\* C24: every repair CreateRepair committed was created with status
\* pending, and every stored repair, in the repairs collection of the
\* repair service and in that of the mechanic service, has the userID of
\* the cost embedded in it.
C24_UserOfCostAndPending ==
    /\ \A m \in commits : m.kind = "create" => m.status = "pending"
    /\ \A r \in repairs : r.userID = r.cost.userID
    /\ \A r \in mRepairs : r.userID = r.cost.userID

\* A created repair is stored on both sides.
C24_Witness ==
    /\ result = Returned("CreateRepair", "ok", 0)
    /\ \E r \in repairs : \E q \in mRepairs :
          q.repairID = r.id /\ q.userID = "u1" /\ r.userID = "u1"


\* C25: once a service has been shut down, each of its background workers
\* is between iterations: the dispatcher holds no batch and is idle, the
\* consumer is not between reading a message and handling it, and the
\* applier holds no batch.
C25_WorkersFinishIteration ==
    /\ ~alive.repair => dpc = "idle" /\ dBatch = <<>>
    /\ ~alive.mechanic => cpc = "poll" /\ aBatch = <<>>

\* C26: every mechanic_outbox row marked processed has its repair in the
\* repairs collection of the mechanic service: the insert of the repair and
\* the mark of the row take effect together or not at all.
C26_ProcessedRowHasRepair ==
    \A d \in mOutbox :
        d.processed /\ ~TooShort(d.payload) /\ AvroOk(Body(d.payload))
            => CheckRepairExists(ToRepairDoc(AvroUnmarshal(Body(d.payload))).id)

\* C27: every RepairUpdated outbox row was committed by a transaction whose
\* status write matched a repair document, and a call whose write matched
\* none has failed with StorageFailure.
C27_UpdateCommitsOnlyOnMatch ==
    \A e \in outbox :
        e.eventType = "RepairUpdated"
            => \E m \in commits : m.tx = e.tx /\ m.kind = "update"

\* A step of the dispatcher in which the publication of the head of the
\* batch failed
PublishFailedStep ==
    /\ dpc = "publish"
    /\ broker # "up"
    /\ crashes' = crashes
    /\ <<dpc, dBatch>>' # <<dpc, dBatch>>

\* C28: a failed publication leaves the row processed=false and appends
\* nothing to the topic, the pass goes on with the rows that follow in the
\* batch, and the pass a later tick starts holds every row still unprocessed,
\* the failed one included.
C28_FailedPublishRetried ==
    /\ [][PublishFailedStep =>
            /\ outbox' = outbox
            /\ ~OutboxRow(Head(dBatch)).processed
            /\ topic' = topic
            /\ dBatch' = Tail(dBatch)
            /\ dpc' = IF Tail(dBatch) = <<>> THEN "idle" ELSE "publish"]_vars
    /\ [][dpc = "idle" /\ dpc' = "publish" =>
            \A d \in outbox :
                ~d.processed => \E i \in DOMAIN dBatch' : dBatch'[i] = d.id]_vars

\* The publication of row 1 failed, row 1 is unprocessed and unpublished, and
\* the same pass is about to publish row 2.
C28_Witness ==
    /\ dpc = "publish"
    /\ dBatch = <<2>>
    /\ \E d \in outbox : d.id = 1 /\ ~d.processed
    /\ \A i \in DOMAIN topic : topic[i].src # 1

C30_RowLifecycleOrdered ==
    /\ [][\A d \in outbox :
            d.processed => \E e \in outbox' : e.id = d.id /\ e.processed]_vars
    /\ [](\A d \in outbox :
            d.processed => \E i \in DOMAIN topic : topic[i].src = d.id)
    /\ [][topic' # topic =>
            \A d \in outbox :
                d.id = topic'[Len(topic')].src => ~d.processed]_vars

\* Row 1 is processed and the dispatcher is publishing in a pass that does
\* not hold it.
C30_Witness ==
    /\ dpc = "publish"
    /\ \E d \in outbox :
         /\ d.processed
         /\ \A i \in DOMAIN dBatch : dBatch[i] # d.id

\* C31: at most one pass over the outbox has not returned; a tick that
\* waits while a pass runs starts no pass; and no row is in the hands of two
\* passes.
C31_DispatcherSingleFlight ==
    /\ [](Cardinality(Running) <= 1)
    /\ [][ticker /\ Running # {} => Len(passes') = Len(passes)]_vars
    /\ [](\A i, j \in Running :
            i # j => \A a \in DOMAIN passes[i].batch, b \in DOMAIN passes[j].batch :
                         passes[i].batch[a] # passes[j].batch[b])

\* A tick has fired while a pass waits for the delivery report of a row.
C31_Witness ==
    /\ ticker
    /\ \E i \in DOMAIN passes : passes[i].pc = "publish" /\ broker = "up"

\* An outbox row without its processed flag
Unflagged(d) == [id |-> d.id, eventType |-> d.eventType, payload |-> d.payload,
                 tx |-> d.tx]

\* C32: the processed flag of a row changes only in the dispatcher's mark of
\* the head of its batch; a step of the dispatcher leaves costs, repairs
\* and commits alone and changes the outbox in processed flags only; and
\* while the dispatcher waits for a delivery report, CreateRepair and
\* UpdateRepair can commit.
C32_DispatcherOnlyFlagsRows ==
    /\ [][\A d \in outbox, e \in outbox' :
            d.id = e.id /\ d.processed # e.processed
                => dpc = "mark" /\ d.id = Head(dBatch) /\ e.processed]_vars
    /\ [][dispVars' # dispVars /\ crashes' = crashes =>
            /\ UNCHANGED <<costs, repairs, commits>>
            /\ {Unflagged(d) : d \in outbox'} = {Unflagged(d) : d \in outbox}
            /\ Cardinality(outbox') = Cardinality(outbox)]_vars
    /\ [](dpc = "publish" /\ Cardinality(repairs) < quota.repairs
                          /\ Cardinality(outbox) < quota.events
            => ENABLED (CreateRepair /\ repairs' # repairs))
    /\ [](dpc = "publish" /\ repairs # {} /\ Cardinality(outbox) < quota.events
            => ENABLED (UpdateRepair /\ outbox' # outbox))

\* The dispatcher waits for the delivery report of row 1 while row 2, which
\* its batch does not hold, has been committed.
C32_Witness ==
    /\ dpc = "publish"
    /\ dBatch = <<1>>
    /\ \E d \in outbox : d.id = 2 /\ ~d.processed /\ d.eventType = "RepairCreated"

\* C33: every frame sent after the snapshot carries a repair as its insert
\* committed it, no repair is sent twice after the snapshot, and a step that
\* sends such a frame moves the change stream past an insert.
C33_TailFramesAreInserts ==
    /\ [](\A i \in DOMAIN frames :
            frames[i].via = "tail"
                => \E m \in commits : /\ m.kind = "create"
                                      /\ m.id = frames[i].id
                                      /\ m.status = frames[i].status)
    /\ [](\A i, j \in DOMAIN frames :
            i < j /\ frames[i].via = "tail" /\ frames[j].via = "tail"
                => frames[i].id # frames[j].id)
    /\ [][spc = "tail" /\ frames' # frames =>
            \E m \in commits : /\ m.kind = "create"
                               /\ sFrom < m.tx
                               /\ sFrom' = m.tx
                               /\ \A u \in commits :
                                    sFrom < u.tx /\ u.tx < m.tx => u.kind = "update"]_vars

\* The stream has sent the repair of the snapshot, an update of that repair
\* was committed afterwards, and the stream is past the update, having sent
\* a later insert and nothing for the update.
C33_Witness ==
    /\ spc = "tail"
    /\ \E m \in commits :
         /\ m.kind = "update"
         /\ m.id \in sAtCall
         /\ m.tx < sFrom
         /\ \E i \in DOMAIN frames : /\ frames[i].via = "initial"
                                     /\ frames[i].id = m.id
                                     /\ frames[i].status # m.status
    /\ \E i \in DOMAIN frames : frames[i].via = "tail"

\* C34: a failed send ends the stream of its subscriber, which gets no
\* frame for the repair of that send and none later, and it changes nothing
\* in the call of any other subscriber, which goes on receiving.
C34_FailedSendEndsOneStream ==
    /\ [][\A s \in Subscribers :
            faults' = faults + 1 /\ subs'[s] # subs[s]
                => /\ subs'[s].pc = "closed"
                   /\ subs'[s].frames = subs[s].frames
                   /\ \A t \in Subscribers \ {s} : subs'[t] = subs[t]]_vars
    /\ [][\A s \in Subscribers :
            subs[s].pc = "closed" => subs'[s] = subs[s]]_vars
    /\ [](\A s, t \in Subscribers :
            subs[s].pc = "closed" /\ subs[t].pc = "tail" /\ SubPending(t) # {}
                => ENABLED (SubNext(t)))

\* The stream of subscriber 1 has ended on a failed send, and subscriber 2
\* has received a repair inserted after that, which subscriber 1 never got.
C34_Witness ==
    /\ subs[1].pc = "closed"
    /\ \E i \in DOMAIN subs[2].frames :
         /\ subs[2].frames[i].via = "tail"
         /\ \A j \in DOMAIN subs[1].frames :
              subs[1].frames[j].id # subs[2].frames[i].id

\* C35: a broadcast that has taken the mutex has only open connections to
\* write to: a connection closed after a failed write is in no set a later
\* broadcast reads.
C35_NoWriteToClosedConnection ==
    \A b \in Broadcasts :
        bcast[b].pc = "writing"
            => \A i \in DOMAIN bcast[b].left : wsock[bcast[b].left[i]].open

\* C36: a mechanic_outbox row whose transaction the applier has committed
\* is marked processed, so that no later tick reads it again.
C36_HandledRowIsProcessed ==
    \A d \in mOutbox : d.id \in handled => d.processed

\* C38: every call of EstimateRepairCost returns: its outcome is a cost
\* or an error, never a panic.
C38_EstimateAlwaysReturns ==
    eResult.res # "panic"

\* The outbox rows of the events of a repair
EventsOf(repairID) ==
    {e \in outbox : AvroUnmarshal(Body(e.payload)).id = repairID}

\* C37: when no UpdateRepair call is between its read and its return, the
\* newest outbox row of every repair carries the status the repair has.
C37_LatestEventHasStoredStatus ==
    (\A c \in Callers : txs[c].pc \in {"none", "done"})
        => \A r \in repairs :
             \A e \in EventsOf(r.id) :
                 (\A o \in EventsOf(r.id) : o.id <= e.id)
                     => AvroUnmarshal(Body(e.payload)).status = r.status

\* Two calls for one repair overlapped, each having read the repair before
\* the other committed; both have committed and returned.
C37_Witness ==
    /\ \A c \in Callers : txs[c].pc = "done"
    /\ txs[1].repair = txs[2].repair
    /\ txs[1].status # txs[2].status
    /\ Cardinality({m \in commits : m.kind = "update"}) = 2

\* C39: every message written to a connection names the user the
\* connection registered under and comes from a call the repair service
\* confirmed for a repair of that user; and a write goes to a connection of
\* the set of the user of the broadcast that holds the mutex.
C39_BroadcastOnlyToOwnUser ==
    /\ [](\A c \in Conns :
            \A i \in DOMAIN wire[c] :
                /\ wire[c][i].userID = wsock[c].user
                /\ bcast[wire[c][i].call].user = wire[c][i].userID
                /\ bcast[wire[c][i].call].pc \in {"writing", "done"})
    /\ [][\A c \in Conns :
            wire'[c] # wire[c]
                => \E b \in Broadcasts :
                     /\ bcast[b].pc = "writing"
                     /\ Head(bcast[b].left) = c
                     /\ \E i \in DOMAIN clients[bcast[b].user] :
                          clients[bcast[b].user][i] = c
                     /\ wire'[c] = Append(wire[c], StatusUpdate(b))]_vars

\* Connections of two users are registered, a broadcast for the first user
\* has returned, its message is on the first user's connection and nothing
\* is on the other's.
C39_Witness ==
    /\ wsock[1].pc = "reading" /\ wsock[2].pc = "reading"
    /\ wsock[1].user # wsock[2].user
    /\ \E b \in Broadcasts : /\ bcast[b].pc = "done"
                             /\ bcast[b].user = wsock[1].user
                             /\ wire[1] = << StatusUpdate(b) >>
    /\ wire[2] = <<>>

====
